---- MODULE Spec2Model ----
(***************************************************************************)
(* Feed retrieval against the day-partitioned store (db/scylla.ts), the    *)
(* home-timeline endpoint that drives it (endpoints/notes/timeline.ts) and *)
(* the Redis-backed caches (misc/cache.ts).                                *)
(*                                                                         *)
(* Time is counted in ticks.  A calendar day has DayLen ticks; the last    *)
(* tick of a day stands for the instants from 23:59:59.990 on, so that the *)
(* cursor value produced by setHours(23, 59, 59, 990) is the last tick of  *)
(* a day and a row created in the last 10 ms of a day lies on that tick.   *)
(* Dates are taken in UTC.  The model covers deployments in which the      *)
(* wide-column store is configured (scyllaClient is not null).             *)
(***************************************************************************)
EXTENDS Integers, Sequences, FiniteSets, TLC

VARIABLES
    unit,              \* which component the behaviour exercises
    store,             \* rows held by the wide-column store (unchanged by reads)
    now,               \* wall clock, in ticks
    queryLimit,        \* config.scylla.queryLimit, the per-scan fetch limit
    kind,              \* FeedType of the request
    ps,                \* the request descriptor object (mutable)
    ps0,               \* history: the descriptor as the caller issued it
    userId,            \* the userId argument of execPaginationQuery
    maxPartitions,     \* the maxPartitions argument
    pc,                \* position of the call of execPaginationQuery
    result,            \* what the call gave its caller
    untilDate,         \* scan cursor
    sinceDate,         \* resolved lower bound, None when absent
    scannedPartitions,
    found,             \* rows accumulated by the scanner
    foundLimit,
    scans,             \* history: the range scans issued so far
    exhausted,         \* history: days counted as exhausted partitions
    run,               \* history: how many times the request has been issued
    firstResult,       \* history: the result of the first run
    tpc,               \* position of the home-timeline handler
    foundPacked,       \* rows packed by the handler so far
    response,          \* what the handler returns
    redis,             \* the Redis keyspace: key -> [value, expires]
    ttl,               \* this.ttl of the Cache instance, in seconds
    fc,                \* the call of Cache.fetch / Cache.fetchMaybe in progress
    lastGet,           \* history: the Cache.get that has just returned
    lastDelete,        \* history: the Cache.delete that has just settled
    lastWrite,         \* history: key -> the latest completed write of the key
    renewed,           \* history: keys whose TTL was renewed since their latest write
    rsets,             \* the Redis sets: key -> members (no key: the empty set)
    marks,             \* the Redis keys "<set key>:fetched": key -> expires
    source,            \* the source of truth: what each cache's fetcher finds
    scenario,          \* history: per cache, how far the sync-then-add scenario got
    wm,                \* a call of checkWordMute: its arguments and what it gave
    chain              \* a run of the filter steps: the batch, the context, the outcome

scanVars == <<queryLimit, kind, ps, ps0, userId, maxPartitions, pc, result, untilDate,
              sinceDate, scannedPartitions, found, foundLimit, scans, exhausted>>

rerunVars == <<run, firstResult>>

timelineVars == <<tpc, foundPacked, response>>

memberVars == <<rsets, marks, source, scenario>>

keyedVars == <<redis, ttl, fc, lastGet, lastDelete, lastWrite, renewed>>

pureVars == <<wm, chain>>

cacheVars == <<keyedVars, memberVars, pureVars>>

vars == <<unit, store, now, scanVars, rerunVars, timelineVars, cacheVars>>

----------------------------------------------------------------------------
(* Bounds of the model *)

\* ticks per calendar day (86400000 ms)
DayLen == 3
\* rows in the store of a scanner request
MaxRows == 2
\* rows in the home feed of a timeline request
MaxFeedRows == 3
\* the longest time to live of a cache, in seconds
MaxTtl == 2
\* the seconds the cache is observed for
MaxClock == 3

None == -1
NoId == <<>>

\* the days that hold rows; day 0 starts at the epoch and holds none
Days == {1, 2, 3}
Time == {d * DayLen + t : d \in Days, t \in 0 .. (DayLen - 1)}
\* the clock when the request arrives: the end of the last day
EndOfTime == 4 * DayLen - 1
Keys == {"a", "b"}
Limits == {1, 2}
PartitionBudgets == {1, 2}
QueryLimits == {1, 2}

FeedType == {"home", "local", "recommended", "global", "renotes", "user",
             "channel", "notification", "list", "reaction", "antenna"}

----------------------------------------------------------------------------
(* Helpers *)

Min(a, b) == IF a < b THEN a ELSE b

Last(s) == s[Len(s)]

Take(s, n) == SubSeq(s, 1, Min(n, Len(s)))

\* the subsequence of s at the positions in M
RECURSIVE KeepAt(_, _)
KeepAt(s, M) ==
    IF Len(s) = 0 THEN <<>>
    ELSE KeepAt(SubSeq(s, 1, Len(s) - 1), M) \o (IF Len(s) \in M THEN <<Last(s)>> ELSE <<>>)

\* JavaScript truthiness of an optional number: undefined and 0 are falsy
TruthyNum(x) == x # None /\ x # 0

\* JavaScript truthiness of an optional string: undefined and "" are falsy
TruthyStr(x) == x # ""

DayOf(t) == t \div DayLen

\* variant: the day is not stepped back before setHours
EndOfSameDay(t) == DayOf(t) * DayLen + (DayLen - 1)

\* variant: two days are stepped back
EndOfDayBeforePrevious(t) == (DayOf(t) - 2) * DayLen + (DayLen - 1)

\* new Date(t - 86400000) followed by setHours(23, 59, 59, 990)
EndOfPreviousDay(t) == (DayOf(t) - 1) * DayLen + (DayLen - 1)

\* getTimestamp(id): the creation time embedded in an id
getTimestamp(id) == id[1]

----------------------------------------------------------------------------
(* The store *)

\* A row: creation time, the value of the scoping column of the table the
\* feed kind reads (feedUserId, userId, renoteId, channelId, targetId), and
\* whether the caller-supplied filter keeps it.
Rows == {r \in [createdAt : Time, key : Keys, pass : BOOLEAN] : r.key = "a" \/ r.pass}

\* Clustering order of a table: newest first; rows of one creation time in a
\* fixed order of their remaining columns.
Rank(r) == r.createdAt * 4 + (IF r.key = "a" THEN 2 ELSE 0) + (IF r.pass THEN 1 ELSE 0)

RECURSIVE SortDesc(_)
SortDesc(S) ==
    IF S = {} THEN <<>>
    ELSE LET top == CHOOSE r \in S : \A q \in S : Rank(q) <= Rank(r)
         IN <<top>> \o SortDesc(S \ {top})

RECURSIVE SubsetsUpTo(_, _)
SubsetsUpTo(S, n) ==
    IF n = 0 THEN {{}}
    ELSE LET smaller == SubsetsUpTo(S, n - 1)
         IN smaller \cup {T \cup {r} : T \in smaller, r \in S}

\* rows whose scoping column holds the id the request is scoped by
HomeRows == {r \in Rows : r.key = "a"}

\* the store contents a request of kind k is checked against: only a list
\* request names a second scoping id, so only its tables hold rows of one
StoresFor(k) == SubsetsUpTo(IF k = "list" THEN Rows ELSE HomeRows, MaxRows)

\* Kinds whose prepared statement binds a day partition: the parameter list
\* passes untilDate twice, once for the partition column "createdAtDate".
DayPartitioned(k) == k \notin {"user", "reaction", "renotes", "channel", "list"}

\* Kinds whose prepared statement binds a scoping id as first parameter
Scoped(k) == k \in {"home", "user", "reaction", "renotes", "channel",
                    "notification", "list"}

\* variant: the upper bound of the scan is inclusive
RangeScanInclusive(k, scope, until, since, lim) ==
    LET hit == {r \in store :
                   /\ Scoped(k) => r.key = scope
                   /\ DayPartitioned(k) => DayOf(r.createdAt) = DayOf(until)
                   /\ r.createdAt <= until
                   /\ since # None => r.createdAt > since}
    IN Take(SortDesc(hit), lim)

\* query: <base select> AND "createdAt" < ? [AND "createdAt" > ?] LIMIT ?
RangeScan(k, scope, until, since, lim) ==
    LET hit == {r \in store :
                   /\ Scoped(k) => r.key = scope
                   /\ DayPartitioned(k) => DayOf(r.createdAt) = DayOf(until)
                   /\ r.createdAt < until
                   /\ since # None => r.createdAt > since}
    IN Take(SortDesc(hit), lim)

----------------------------------------------------------------------------
(* preparePaginationQuery *)

\* variant: the upper bound is always the clock
ResolveUntilClock(p, clock) ==
    IF TruthyNum(p.untilDate) /\ p.untilDate < clock THEN p.untilDate ELSE clock

ResolveUntil(p, clock) ==
    LET u == IF p.untilId # NoId THEN getTimestamp(p.untilId) ELSE clock
    IN IF TruthyNum(p.untilDate) /\ p.untilDate < u THEN p.untilDate ELSE u

ResolveSince(p) ==
    LET s == IF p.sinceId # NoId THEN getTimestamp(p.sinceId) ELSE None
    IN IF TruthyNum(p.sinceDate) /\ (s = None \/ p.sinceDate > s)
       THEN p.sinceDate ELSE s

\* the prepared select statement the switch on the kind starts the query with
SelectOf(k) ==
    CASE k = "home" -> "homeTimeline.select.byUserAndDate"
      [] k = "local" -> "localTimeline.select.byDate"
      [] k \in {"recommended", "global"} -> "globalTimeline.select.byDate"
      [] k = "renotes" -> "note.select.byRenoteId"
      [] k \in {"user", "list"} -> "note.select.byUserId"
      [] k = "channel" -> "note.select.byChannelId"
      [] k = "notification" -> "notification.select.byTargetId"
      [] k = "reaction" -> "reaction.select.byUserId"
      [] OTHER -> "note.select.byDate"

UpperBound == "AND \"createdAt\" < ?"
LowerBound == "AND \"createdAt\" > ?"
RowLimit == "LIMIT ?"

\* queryParts, before the join: the select, the upper bound, the lower bound
\* when since is not null, the row limit
QueryParts(k, p) ==
    <<SelectOf(k), UpperBound>>
        \o (IF ResolveSince(p) # None THEN <<LowerBound>> ELSE <<>>)
        \o <<RowLimit>>

\* what preparePaginationQuery returns
Prepared(k, p, clock) ==
    [query |-> QueryParts(k, p), untilDate |-> ResolveUntil(p, clock),
     sinceDate |-> ResolveSince(p)]

----------------------------------------------------------------------------
(* execPaginationQuery *)

\* variant: the channel case of the switch is missing
MissingScopeNoChannel(k, p, uid) ==
    \/ k \in {"home", "user", "notification", "reaction"} /\ ~TruthyStr(uid)
    \/ k = "renotes" /\ ~TruthyStr(p.noteId)
    \/ k = "list" /\ Len(p.userIds) = 0

\* the switch that rejects a feed kind invoked without its scoping id
MissingScope(k, p, uid) ==
    \/ k \in {"home", "user", "notification", "reaction"} /\ ~TruthyStr(uid)
    \/ k = "renotes" /\ ~TruthyStr(p.noteId)
    \/ k = "channel" /\ ~TruthyStr(p.channelId)
    \/ k = "list" /\ Len(p.userIds) = 0

FoundLimit(k, p) == IF k = "list" THEN p.limit * Len(p.userIds) ELSE p.limit

FetchLimit(k, p) == IF k = "list" THEN Min(p.limit, queryLimit) ELSE queryLimit

\* variant: the budget comparison is off by one
LoopGuardInclusive == Len(found) < foundLimit /\ scannedPartitions <= maxPartitions

\* while (found.length < foundLimit && scannedPartitions < maxPartitions)
LoopGuard == Len(found) < foundLimit /\ scannedPartitions < maxPartitions

\* the first bound parameter of the scan
ScopeParam(k, p, uid) ==
    CASE k \in {"home", "user", "reaction", "notification"} -> uid
      [] k = "renotes" -> p.noteId
      [] k = "channel" -> p.channelId
      [] k = "list" -> Last(p.userIds)
      [] OTHER -> ""

Param(name, value) == [of |-> name, value |-> value]

\* the parameters bound to the query of one iteration: the scoping id and the
\* cursor (twice where a day partition is bound), sinceDate if there is one,
\* the fetch limit
ScanParams(k, p, uid, until, since) ==
    LET cursor == Param("untilDate", until)
        head == CASE k \in {"home", "notification"} ->
                        <<Param("userId", uid), cursor, cursor>>
                  [] k \in {"user", "reaction"} -> <<Param("userId", uid), cursor>>
                  [] k = "renotes" -> <<Param("noteId", p.noteId), cursor>>
                  [] k = "channel" -> <<Param("channelId", p.channelId), cursor>>
                  [] k = "list" -> <<Param("targetId", Last(p.userIds)), cursor>>
                  [] OTHER -> <<cursor, cursor>>
    IN head \o (IF since # None THEN <<Param("sinceDate", since)>> ELSE <<>>)
            \o <<Param("fetchLimit", FetchLimit(k, p))>>

\* filter?.note / filter?.reaction / filter?.notification applied to a batch
ApplyFilter(batch) == SelectSeq(batch, LAMBDA r : r.pass)

\* variant: the cursor is not moved to the batch's last row
CursorStays(batch, until) == until

\* variant: the cursor stops just above the batch's last row
CursorAboveLast(batch, until) ==
    IF Len(batch) > 0 THEN Last(batch).createdAt + 1 ELSE until

\* untilDate after a batch: the creation time of its last row
CursorAfterBatch(batch, until) ==
    IF Len(batch) > 0 THEN Last(batch).createdAt ELSE until

Pending == <<"pending">>
Thrown == <<"throw">>
Returned(rows) == <<"rows", rows>>

\* ps.userIds.pop() leaves the descriptor without its last target id
PopTarget(k, p) ==
    IF k = "list" THEN [p EXCEPT !.userIds = Take(@, Len(@) - 1)] ELSE p

\* kind "list": pop() gave undefined (or an empty id) and the loop breaks
NoTarget(k, p) == k = "list" /\ (Len(p.userIds) = 0 \/ ~TruthyStr(Last(p.userIds)))

ScanRecord(rows) ==
    [until |-> untilDate, scope |-> ScopeParam(kind, ps, userId), rows |-> rows,
     limit |-> FetchLimit(kind, ps), scanned |-> scannedPartitions,
     had |-> Len(found), target |-> foundLimit, done |-> exhausted]

\* entry of execPaginationQuery: validation, preparePaginationQuery, locals
Exec ==
    /\ unit \in {"scan", "timeline"}
    /\ pc = "call"
    /\ IF MissingScope(kind, ps, userId)
       THEN /\ pc' = "error"
            /\ result' = Thrown
            /\ UNCHANGED <<untilDate, sinceDate, foundLimit>>
       ELSE /\ pc' = "loop"
            /\ result' = Pending
            /\ untilDate' = ResolveUntil(ps, now)
            /\ sinceDate' = ResolveSince(ps)
            /\ foundLimit' = FoundLimit(kind, ps)
    /\ scannedPartitions' = 0
    /\ found' = <<>>
    /\ UNCHANGED <<unit, store, now, queryLimit, kind, ps, ps0, userId, maxPartitions,
                   scans, exhausted, rerunVars, timelineVars, cacheVars>>

\* one iteration of the while loop whose range scan succeeds
Iterate ==
    /\ unit \in {"scan", "timeline"}
    /\ pc = "loop"
    /\ LoopGuard
    /\ ps' = PopTarget(kind, ps)
    /\ IF NoTarget(kind, ps)
       THEN /\ pc' = "done"
            /\ result' = Returned(found)
            /\ UNCHANGED <<untilDate, scannedPartitions, found, scans, exhausted>>
       ELSE LET fetchLimit == FetchLimit(kind, ps)
                batch == RangeScan(kind, ScopeParam(kind, ps, userId),
                                   untilDate, sinceDate, fetchLimit)
                afterBatch == CursorAfterBatch(batch, untilDate)
                short == Len(batch) < fetchLimit
                next == IF short THEN EndOfPreviousDay(afterBatch) ELSE afterBatch
                stop == short /\ sinceDate # None /\ next < sinceDate
            IN /\ found' = found \o ApplyFilter(batch)
               /\ untilDate' = next
               /\ scannedPartitions' = IF short THEN scannedPartitions + 1
                                       ELSE scannedPartitions
               /\ scans' = Append(scans, ScanRecord(Len(batch)))
               /\ exhausted' = IF short THEN exhausted \cup {DayOf(afterBatch)}
                               ELSE exhausted
               /\ pc' = IF stop THEN "done" ELSE "loop"
               /\ result' = IF stop THEN Returned(found') ELSE result
    /\ UNCHANGED <<unit, store, now, queryLimit, kind, ps0, userId, maxPartitions,
                   sinceDate, foundLimit, rerunVars, timelineVars, cacheVars>>

\* scyllaClient.execute rejects: the exception leaves execPaginationQuery
ScanFails ==
    /\ unit \in {"scan", "timeline"}
    /\ pc = "loop"
    /\ LoopGuard
    /\ ~NoTarget(kind, ps)
    /\ pc' = "failed"
    /\ result' = Thrown
    /\ ps' = PopTarget(kind, ps)
    /\ scans' = Append(scans, ScanRecord(None))
    /\ UNCHANGED <<unit, store, now, queryLimit, kind, ps0, userId, maxPartitions,
                   untilDate, sinceDate, scannedPartitions, found, foundLimit,
                   exhausted, rerunVars, timelineVars, cacheVars>>

\* the loop condition is false: return found
Return ==
    /\ unit \in {"scan", "timeline"}
    /\ pc = "loop"
    /\ ~LoopGuard
    /\ pc' = "done"
    /\ result' = Returned(found)
    /\ UNCHANGED <<unit, store, now, queryLimit, kind, ps, ps0, userId, maxPartitions,
                   untilDate, sinceDate, scannedPartitions, found, foundLimit, scans,
                   exhausted, rerunVars, timelineVars, cacheVars>>

\* the caller issues the identical request again, later, with a descriptor of
\* its own; the store is unchanged
Rerun ==
    /\ unit = "scan"
    /\ pc = "done"
    /\ run = 1
    /\ run' = 2
    /\ firstResult' = result
    /\ ps' = ps0
    /\ now' = now + 1
    /\ pc' = "call"
    /\ result' = Pending
    /\ scans' = <<>>
    /\ exhausted' = {}
    /\ UNCHANGED <<unit, store, queryLimit, kind, ps0, userId, maxPartitions, untilDate,
                   sinceDate, scannedPartitions, found, foundLimit, timelineVars,
                   cacheVars>>

----------------------------------------------------------------------------
(* The home-timeline handler, wide-column path *)

\* .slice(0, ps.limit * 1.5)
OverFetch(rows, limit) == Take(rows, (limit * 3) \div 2)

\* variant: the final slice is missing
NoFinalSlice(rows, limit) == rows

\* foundPacked.slice(0, ps.limit)
FinalSlice(rows, limit) == Take(rows, limit)

\* Notes.packMany keeps the notes whose pack() is fulfilled, in order
PackMany(rows) == {KeepAt(rows, M) : M \in SUBSET (1 .. Len(rows))}

\* execPaginationQuery returned: pack, then break, return or scan again
TimelinePack ==
    /\ unit = "timeline"
    /\ tpc = "exec"
    /\ pc = "done"
    /\ LET foundNotes == OverFetch(result[2], ps.limit)
       IN \E packed \in PackMany(foundNotes) :
            LET all == foundPacked \o packed
                again == Len(foundNotes) >= ps.limit /\ Len(all) < ps.limit
            IN /\ foundPacked' = all
               /\ ps' = IF Len(foundNotes) >= ps.limit
                        THEN [ps EXCEPT !.untilDate = Last(foundNotes).createdAt]
                        ELSE ps
               /\ IF again
                  THEN /\ tpc' = "exec"
                       /\ pc' = "call"
                       /\ result' = Pending
                       /\ response' = response
                  ELSE /\ tpc' = "returned"
                       /\ pc' = "idle"
                       /\ result' = result
                       /\ response' = Returned(FinalSlice(all, ps.limit))
    /\ UNCHANGED <<unit, store, now, queryLimit, kind, ps0, userId, maxPartitions,
                   untilDate, sinceDate, scannedPartitions, found, foundLimit, scans,
                   exhausted, rerunVars, cacheVars>>

\* execPaginationQuery threw: the handler has no catch on this path
TimelineThrows ==
    /\ unit = "timeline"
    /\ tpc = "exec"
    /\ pc \in {"failed", "error"}
    /\ tpc' = "threw"
    /\ pc' = "idle"
    /\ response' = Thrown
    /\ UNCHANGED <<unit, store, now, queryLimit, kind, ps, ps0, userId, maxPartitions,
                   result, untilDate, sinceDate, scannedPartitions, found, foundLimit,
                   scans, exhausted, rerunVars, foundPacked, cacheVars>>

----------------------------------------------------------------------------
(* The keyed cache (class Cache) over Redis.  In this unit the clock counts  *)
(* seconds.  A call of get or set is taken at one reading of the clock;      *)
(* fetch and fetchMaybe proceed in steps: the read, the fetcher, the write.  *)

\* the key argument null; no key string equals it
NullKey == "<null>"
\* undefined: what get gives for an absent key, what a fetcher may produce
Undefined == "<undefined>"
CacheKeys == {NullKey, "", "u"}
Values == {"v1", "v2"}
\* this.prefix
prefix == "cache:userWordMute"

EmptyDb == [k \in {} |-> 0]

\* what getBuffer gives for a key that does not exist
RedisNull == <<>>

prefixedKey(key) == IF key # NullKey /\ key # "" THEN <<prefix, key>> ELSE <<prefix>>

\* Buffer.from(encode(value)) and decode(buffer) of msgpackr
encode(value) == <<"msgpack", value>>

decode(buffer) == buffer[2]

\* variant: SET on an existing key keeps the expiry the key has
RedisSetKeepTtl(db, key, buffer, seconds, clock) ==
    [k \in DOMAIN db \cup {key} |->
        IF k = key
        THEN [value |-> buffer,
              expires |-> IF key \in DOMAIN db THEN db[key].expires ELSE clock + seconds]
        ELSE db[k]]

\* SET key value EX seconds
RedisSetEx(db, key, buffer, seconds, clock) ==
    [k \in DOMAIN db \cup {key} |->
        IF k = key THEN [value |-> buffer, expires |-> clock + seconds] ELSE db[k]]

\* GET key, as a buffer
RedisGetBuffer(db, key) == IF key \in DOMAIN db THEN db[key].value ELSE RedisNull

\* EXPIRE key seconds: no effect on a key that does not exist
RedisExpire(db, key, seconds, clock) ==
    IF key \in DOMAIN db THEN [db EXCEPT ![key].expires = clock + seconds] ELSE db

\* Redis drops a key once its time to live has run out
Purge(db, clock) == [k \in {q \in DOMAIN db : db[q].expires > clock} |-> db[k]]

\* what Cache.get returns
GetValue(db, key) ==
    LET cached == RedisGetBuffer(db, key)
    IN IF cached = RedisNull THEN Undefined ELSE decode(cached)

\* variant: the expiry is reset whatever renew says
GetEffectAlwaysRenews(db, key, renew, seconds, clock) ==
    IF RedisGetBuffer(db, key) = RedisNull THEN db
    ELSE RedisExpire(db, key, seconds, clock)

\* what Cache.get does to the keyspace
GetEffect(db, key, renew, seconds, clock) ==
    IF RedisGetBuffer(db, key) = RedisNull THEN db
    ELSE IF renew THEN RedisExpire(db, key, seconds, clock) ELSE db

Resolved(value) == <<"value", value>>

NoGet == [done |-> FALSE, key |-> NullKey, renew |-> FALSE, out |-> Undefined,
          before |-> EmptyDb]

NoDelete == [done |-> FALSE, keys |-> <<>>, out |-> Pending, before |-> EmptyDb]

NoValidator == [given |-> FALSE, accepts |-> {}]
Validators == {NoValidator, [given |-> TRUE, accepts |-> {}],
               [given |-> TRUE, accepts |-> {"v1"}]}

NoFetch == [pc |-> "idle", key |-> NullKey, maybe |-> FALSE, validator |-> NoValidator,
            cached |-> Undefined, value |-> Undefined, produced |-> 0,
            wrote |-> FALSE, failedAt |-> "", result |-> Pending]

\* history of the writes: when, what, and whether a live entry was replaced
Written(key, value) ==
    [k \in DOMAIN lastWrite \cup {key} |->
        IF k = key
        THEN [at |-> now, value |-> value,
              over |-> key \in DOMAIN redis /\ key \in DOMAIN lastWrite
                       /\ lastWrite[key].at < now]
        ELSE lastWrite[k]]

Renewed(key, renew) ==
    IF renew /\ key \in DOMAIN redis THEN renewed \cup {key} ELSE renewed

\* what the calls of the keyed cache leave alone
scanFrame == <<store, scanVars, rerunVars, timelineVars, memberVars, pureVars>>

\* Cache.set(key, value) without a transaction
CacheSet(key, value) ==
    /\ unit = "cache"
    /\ redis' = RedisSetEx(redis, prefixedKey(key), encode(value), ttl, now)
    /\ lastWrite' = Written(prefixedKey(key), value)
    /\ renewed' = renewed \ {prefixedKey(key)}
    /\ lastGet' = NoGet
    /\ lastDelete' = NoDelete
    /\ UNCHANGED <<unit, now, ttl, fc, scanFrame>>

\* Cache.get(key, renew)
CacheGet(key, renew) ==
    /\ unit = "cache"
    /\ redis' = GetEffect(redis, prefixedKey(key), renew, ttl, now)
    /\ renewed' = Renewed(prefixedKey(key), renew)
    /\ lastGet' = [done |-> TRUE, key |-> key, renew |-> renew,
                   out |-> GetValue(redis, prefixedKey(key)), before |-> redis]
    /\ lastDelete' = NoDelete
    /\ UNCHANGED <<unit, now, ttl, fc, lastWrite, scanFrame>>

\* the receiver of a method: the cache, or undefined when the method is
\* called as a plain function
BoundThis == [bound |-> TRUE, prefix |-> prefix]
UnboundThis == [bound |-> FALSE, prefix |-> ""]

TypeError == <<"TypeError">>

\* prefixedKey evaluated with the receiver self: this.prefix is read in both
\* branches, and reading a property of undefined throws
prefixedKeyOn(self, key) ==
    IF ~self.bound THEN TypeError
    ELSE IF key # NullKey /\ key # "" THEN <<self.prefix, key>> ELSE <<self.prefix>>

\* keys.map(this.prefixedKey): map calls the function it is given without a
\* receiver
MapPrefixedKey(keys) == [i \in 1 .. Len(keys) |-> prefixedKeyOn(UnboundThis, keys[i])]

\* DEL key [key ...]
RedisDel(db, keys) ==
    [k \in DOMAIN db \ {keys[i] : i \in 1 .. Len(keys)} |-> db[k]]

\* Cache.delete(...keys)
CacheDelete(keys) ==
    /\ unit = "cache"
    /\ LET mapped == MapPrefixedKey(keys)
           throws == Len(keys) > 0 /\ \E i \in 1 .. Len(keys) : mapped[i] = TypeError
       IN /\ redis' = IF Len(keys) > 0 /\ ~throws THEN RedisDel(redis, mapped) ELSE redis
          /\ lastDelete' = [done |-> TRUE, keys |-> keys,
                            out |-> IF throws THEN Thrown ELSE Resolved(Undefined),
                            before |-> redis]
    /\ lastGet' = NoGet
    /\ UNCHANGED <<unit, now, ttl, fc, lastWrite, renewed, scanFrame>>

\* a second passes; keys whose time to live has run out are gone
Tick ==
    /\ unit = "cache"
    /\ now < MaxClock
    /\ now' = now + 1
    /\ redis' = Purge(redis, now + 1)
    /\ lastGet' = NoGet
    /\ lastDelete' = NoDelete
    /\ UNCHANGED <<unit, ttl, fc, lastWrite, renewed, scanFrame>>

\* variant: a cached value is a hit whatever the validator says
CacheHitAnyway(cachedValue, validator) == cachedValue # Undefined

\* fetch / fetchMaybe: the cached value is returned as it is
CacheHit(cachedValue, validator) ==
    cachedValue # Undefined /\ (validator.given => cachedValue \in validator.accepts)

\* fetch(key, fetcher, renew, validator) / fetchMaybe(...) up to the return
\* of this.get
FetchGet(key, renew, maybe, validator) ==
    /\ unit = "cache"
    /\ fc.pc \in {"idle", "done", "failed"}
    /\ LET cachedValue == GetValue(redis, prefixedKey(key))
           hit == CacheHit(cachedValue, validator)
       IN fc' = [pc |-> IF hit THEN "done" ELSE "miss", key |-> key, maybe |-> maybe,
                 validator |-> validator, cached |-> cachedValue,
                 value |-> cachedValue, produced |-> 0, wrote |-> FALSE,
                 failedAt |-> "",
                 result |-> IF hit THEN Resolved(cachedValue) ELSE Pending]
    /\ redis' = GetEffect(redis, prefixedKey(key), renew, ttl, now)
    /\ renewed' = Renewed(prefixedKey(key), renew)
    /\ lastGet' = NoGet
    /\ lastDelete' = NoDelete
    /\ UNCHANGED <<unit, now, ttl, lastWrite, scanFrame>>

\* variant: a rejected read is taken for a miss
FetchGetFailsAsMiss(key, maybe) ==
    /\ unit = "cache"
    /\ fc.pc \in {"idle", "done", "failed"}
    /\ fc' = [pc |-> "miss", key |-> key, maybe |-> maybe, validator |-> NoValidator,
              cached |-> Undefined, value |-> Undefined, produced |-> 0,
              wrote |-> FALSE, failedAt |-> "read", result |-> Pending]
    /\ lastGet' = NoGet
    /\ lastDelete' = NoDelete
    /\ UNCHANGED <<unit, now, redis, ttl, lastWrite, renewed, scanFrame>>

\* this.get rejects: the exception leaves fetch / fetchMaybe
FetchGetFails(key, maybe) ==
    /\ unit = "cache"
    /\ fc.pc \in {"idle", "done", "failed"}
    /\ fc' = [pc |-> "failed", key |-> key, maybe |-> maybe, validator |-> NoValidator,
              cached |-> Undefined, value |-> Undefined, produced |-> 0,
              wrote |-> FALSE, failedAt |-> "read", result |-> Thrown]
    /\ lastGet' = NoGet
    /\ lastDelete' = NoDelete
    /\ UNCHANGED <<unit, now, redis, ttl, lastWrite, renewed, scanFrame>>

\* variant: the fetcher is awaited and the call stays at the miss
FetchProduceAgain(value) ==
    /\ unit = "cache"
    /\ fc.pc = "miss"
    /\ fc.produced < 2
    /\ fc' = [fc EXCEPT !.value = value, !.produced = @ + 1]
    /\ lastGet' = NoGet
    /\ lastDelete' = NoDelete
    /\ UNCHANGED <<unit, now, redis, ttl, lastWrite, renewed, scanFrame>>

\* cache miss: the fetcher resolves; fetchMaybe returns its undefined unwritten
FetchProduce(value) ==
    /\ unit = "cache"
    /\ fc.pc = "miss"
    /\ value = Undefined => fc.maybe
    /\ fc' = IF value = Undefined
             THEN [fc EXCEPT !.pc = "done", !.value = value, !.produced = @ + 1,
                             !.result = Resolved(value)]
             ELSE [fc EXCEPT !.pc = "produced", !.value = value, !.produced = @ + 1]
    /\ lastGet' = NoGet
    /\ lastDelete' = NoDelete
    /\ UNCHANGED <<unit, now, redis, ttl, lastWrite, renewed, scanFrame>>

\* cache miss: the fetcher rejects
FetchProduceFails ==
    /\ unit = "cache"
    /\ fc.pc = "miss"
    /\ fc' = [fc EXCEPT !.pc = "failed", !.produced = @ + 1, !.failedAt = "fetcher",
                        !.result = Thrown]
    /\ lastGet' = NoGet
    /\ lastDelete' = NoDelete
    /\ UNCHANGED <<unit, now, redis, ttl, lastWrite, renewed, scanFrame>>

\* await this.set(key, value); return value
FetchSet ==
    /\ unit = "cache"
    /\ fc.pc = "produced"
    /\ redis' = RedisSetEx(redis, prefixedKey(fc.key), encode(fc.value), ttl, now)
    /\ lastWrite' = Written(prefixedKey(fc.key), fc.value)
    /\ renewed' = renewed \ {prefixedKey(fc.key)}
    /\ fc' = [fc EXCEPT !.pc = "done", !.wrote = TRUE, !.result = Resolved(fc.value)]
    /\ lastGet' = NoGet
    /\ lastDelete' = NoDelete
    /\ UNCHANGED <<unit, now, ttl, scanFrame>>

\* this.set rejects: the exception leaves fetch / fetchMaybe
FetchSetFails ==
    /\ unit = "cache"
    /\ fc.pc = "produced"
    /\ fc' = [fc EXCEPT !.pc = "failed", !.failedAt = "write", !.result = Thrown]
    /\ lastGet' = NoGet
    /\ lastDelete' = NoDelete
    /\ UNCHANGED <<unit, now, redis, ttl, lastWrite, renewed, scanFrame>>

----------------------------------------------------------------------------
(* The membership cache (class SetCache) over Redis sets.  A call is taken   *)
(* at one reading of the clock, in seconds.                                  *)

\* the freshness marker's time to live (60 * 30 seconds), in ticks
MarkerTtl == 2

CacheNames == {"follow", "channel"}
Owners == {"o1", "o2"}
Ids == {"a", "b"}

\* the caches of the model: (name, userId)
Caches == {<<"follow", "o1">>, <<"follow", "o2">>, <<"channel", "o1">>}

\* variant: the key leaves the owner out
SetKeyByName(name, owner) == <<"setcache", name>>

\* this.key = `setcache:${name}:${userId}`
SetKey(name, owner) == <<"setcache", name, owner>>

\* `${this.key}:fetched`
TtlKey(key) == key \o <<"fetched">>

MemberKeys == {SetKey(c[1], c[2]) : c \in Caches}

\* variant: the set counts as non-empty whatever it holds
hasFollowingAlways(sets, key) == TRUE

\* SCARD key !== 0
hasFollowing(sets, key) == Cardinality(sets[key]) # 0

\* SISMEMBER key id === 1
isFollowing(sets, key, id) == id \in sets[key]

\* SMEMBERS key
getAll(sets, key) == sets[key]

\* SADD key id [id ...]
RedisSadd(sets, key, ids) == [sets EXCEPT ![key] = @ \cup ids]

\* SREM key id [id ...]
RedisSrem(sets, key, ids) == [sets EXCEPT ![key] = @ \ ids]

\* variant: DEL leaves the members
RedisDelSetKeep(sets, key) == sets

\* DEL key, for a set
RedisDelSet(sets, key) == [sets EXCEPT ![key] = {}]

\* variant: EXISTS finds no marker
RedisExistsNever(ms, key) == 0

\* EXISTS key, for a marker
RedisExists(ms, key) == IF key \in DOMAIN ms THEN 1 ELSE 0

\* SET key "yes" EX seconds
RedisSetMarker(ms, key, seconds, clock) ==
    [k \in DOMAIN ms \cup {key} |-> IF k = key THEN clock + seconds ELSE ms[k]]

PurgeMarks(ms, clock) == [k \in {q \in DOMAIN ms : ms[q] > clock} |-> ms[k]]

\* variant: nothing is sent for a single id either
FollowEffectSeveral(sets, key, ids) ==
    IF Cardinality(ids) > 1 THEN RedisSadd(sets, key, ids) ELSE sets

\* follow(...targetIds): nothing is sent for an empty list
FollowEffect(sets, key, ids) == IF ids # {} THEN RedisSadd(sets, key, ids) ELSE sets

\* unfollow(...targetIds): nothing is sent for an empty list
UnfollowEffect(sets, key, ids) == IF ids # {} THEN RedisSrem(sets, key, ids) ELSE sets

\* fetch() syncs from the source of truth
NeedsSync(sets, ms, key) == ~hasFollowing(sets, key) \/ RedisExists(ms, TtlKey(key)) = 0

NoScenario == [phase |-> "none", ids |-> {}, stale |-> FALSE]

otherFrame == <<store, scanVars, rerunVars, timelineVars, keyedVars, pureVars>>

\* SetCache.fetch(), as LocalFollowingsCache.init / ChannelFollowingsCache.init
\* call it
SetCacheFetch(c) ==
    /\ unit = "member"
    /\ LET key == SetKey(c[1], c[2])
           sync == NeedsSync(rsets, marks, key)
       IN /\ rsets' = IF sync THEN FollowEffect(RedisDelSet(rsets, key), key, source[c])
                               ELSE rsets
          /\ marks' = IF sync THEN RedisSetMarker(marks, TtlKey(key), MarkerTtl, now)
                               ELSE marks
          /\ scenario' = [scenario EXCEPT ![c] =
                            IF source[c] = {} /\ (rsets[key] = {} \/ TtlKey(key) \notin DOMAIN marks)
                            THEN [phase |-> "synced", ids |-> {}, stale |-> rsets[key] # {}]
                            ELSE NoScenario]
    /\ UNCHANGED <<unit, now, source, otherFrame>>

\* SetCache.follow(...targetIds)
SetCacheFollow(c, ids) ==
    /\ unit = "member"
    /\ rsets' = FollowEffect(rsets, SetKey(c[1], c[2]), ids)
    /\ scenario' = [scenario EXCEPT ![c] =
                      IF scenario[c].phase = "synced" /\ ids # {}
                      THEN [phase |-> "added", ids |-> ids, stale |-> scenario[c].stale]
                      ELSE IF ids = {} THEN @ ELSE NoScenario]
    /\ UNCHANGED <<unit, now, marks, source, otherFrame>>

\* SetCache.unfollow(...targetIds)
SetCacheUnfollow(c, ids) ==
    /\ unit = "member"
    /\ rsets' = UnfollowEffect(rsets, SetKey(c[1], c[2]), ids)
    /\ scenario' = [scenario EXCEPT ![c] = IF ids = {} THEN @ ELSE NoScenario]
    /\ UNCHANGED <<unit, now, marks, source, otherFrame>>

\* a second passes; markers whose time to live has run out are gone
MemberTick ==
    /\ unit = "member"
    /\ now < MaxClock
    /\ now' = now + 1
    /\ marks' = PurgeMarks(marks, now + 1)
    /\ UNCHANGED <<unit, rsets, source, scenario, otherFrame>>

----------------------------------------------------------------------------
(* Word mute: misc/check-word-mute.ts.  A string is a sequence of characters. *)

MaxPatterns == 2

NullStr == <<"<null>">>

\* s ?? ""
Coalesce(s) == IF s = NullStr THEN <<>> ELSE s

Str_foo == <<"f", "o", "o">>
Str_bar == <<"b", "a", "r">>
Str_FOO == <<"F", "O", "O">>
Str_only == <<"o", "n", "l", "y">>

LowerChar(c) ==
    CASE c = "F" -> "f"
      [] c = "O" -> "o"
      [] OTHER -> c

\* String.prototype.toLowerCase
toLowerCase(s) == [i \in 1 .. Len(s) |-> LowerChar(s[i])]

\* String.prototype.includes
includes(s, k) == \E i \in 0 .. Len(s) - Len(k) : SubSeq(s, i + 1, i + Len(k)) = k

RECURSIVE trimStart(_)
trimStart(s) == IF Len(s) > 0 /\ s[1] = " " THEN trimStart(Tail(s)) ELSE s

RECURSIVE trimEnd(_)
trimEnd(s) ==
    IF Len(s) > 0 /\ s[Len(s)] = " " THEN trimEnd(SubSeq(s, 1, Len(s) - 1)) ELSE s

\* String.prototype.trim
trim(s) == trimStart(trimEnd(s))

\* mutePattern.match(/^\/(.+)\/(.*)$/): the greedy body runs to the last slash;
\* null when the string has no such form
NoMatch == [matched |-> FALSE, body |-> <<>>, flags |-> <<>>]

MatchRegexForm(p) ==
    LET slashes == {i \in 3 .. Len(p) : p[i] = "/"}
    IN IF Len(p) >= 3 /\ p[1] = "/" /\ slashes # {}
       THEN LET last == CHOOSE i \in slashes : \A j \in slashes : j <= i
            IN [matched |-> TRUE, body |-> SubSeq(p, 2, last - 1),
                flags |-> SubSeq(p, last + 1, Len(p))]
       ELSE NoMatch

\* new RE2(body, flags) over the expressions made of characters and c*: an
\* opening parenthesis is never closed and a star needs something to repeat
Compiles(body) ==
    \A i \in 1 .. Len(body) :
        /\ body[i] # "("
        /\ body[i] = "*" => (i > 1 /\ body[i - 1] # "*")

\* the compiled expression: one atom per character, starred or not
RECURSIVE Atoms(_)
Atoms(body) ==
    IF Len(body) = 0 THEN <<>>
    ELSE IF Len(body) > 1 /\ body[2] = "*"
         THEN <<[ch |-> body[1], star |-> TRUE]>> \o Atoms(SubSeq(body, 3, Len(body)))
         ELSE <<[ch |-> body[1], star |-> FALSE]>> \o Atoms(Tail(body))

RECURSIVE MatchFrom(_, _, _, _)
MatchFrom(atoms, text, pos, fold) ==
    IF Len(atoms) = 0 THEN TRUE
    ELSE LET a == atoms[1]
             here == /\ pos <= Len(text)
                     /\ IF fold THEN LowerChar(text[pos]) = LowerChar(a.ch)
                        ELSE text[pos] = a.ch
         IN IF a.star
            THEN \/ MatchFrom(Tail(atoms), text, pos, fold)
                 \/ here /\ MatchFrom(atoms, text, pos + 1, fold)
            ELSE here /\ MatchFrom(Tail(atoms), text, pos + 1, fold)

\* RE2.prototype.test: a match starting anywhere; flag i folds the case
RegexTest(body, flags, text) ==
    \E pos \in 1 .. Len(text) + 1 :
        MatchFrom(Atoms(body), text, pos, \E i \in 1 .. Len(flags) : flags[i] = "i")

\* the text the patterns are tried on: cw and text joined by a blank; the note
\* has no files and no reply or renote columns, which add blanks only
NoteText(note) ==
    trim(Coalesce(note.cw) \o <<" ">> \o Coalesce(note.text) \o <<" ", " ", " ">>)

ListPattern(items) == [array |-> TRUE, items |-> items, str |-> <<>>]
StringPattern(str) == [array |-> FALSE, items |-> <<>>, str |-> str]

\* mutePattern.filter((keyword) => keyword !== "")
RECURSIVE CleanUp(_)
CleanUp(items) ==
    IF Len(items) = 0 THEN <<>>
    ELSE IF items[1] = <<>> THEN CleanUp(Tail(items))
         ELSE <<items[1]>> \o CleanUp(Tail(items))

\* variant: one keyword is enough
KeywordsMatchSome(text, pattern) ==
    LET keywords == CleanUp(pattern.items)
    IN \E i \in 1 .. Len(keywords) :
           includes(toLowerCase(text), toLowerCase(keywords[i]))

\* keywords.length > 0 && keywords.every(...)
KeywordsMatch(text, pattern) ==
    LET keywords == CleanUp(pattern.items)
    IN /\ Len(keywords) > 0
       /\ \A i \in 1 .. Len(keywords) :
              includes(toLowerCase(text), toLowerCase(keywords[i]))

\* variant: the catch clause is gone, a pattern that does not compile throws
TryRegexUncaught(text, regexp) ==
    IF ~Compiles(regexp.body) THEN Thrown
    ELSE Resolved(RegexTest(regexp.body, regexp.flags, text))

\* try { new RE2(...).test(text) } catch { }: what the try statement gives
TryRegex(text, regexp) ==
    IF ~Compiles(regexp.body) THEN Resolved(FALSE)
    ELSE Resolved(RegexTest(regexp.body, regexp.flags, text))

\* for (const mutePattern of mutedWords)
RECURSIVE ScanPatterns(_, _)
ScanPatterns(text, words) ==
    IF Len(words) = 0 THEN Resolved(FALSE)
    ELSE LET mutePattern == words[1]
         IN IF mutePattern.array
            THEN IF KeywordsMatch(text, mutePattern) THEN Resolved(TRUE)
                 ELSE ScanPatterns(text, Tail(words))
            ELSE LET regexp == MatchRegexForm(mutePattern.str)
                 IN IF ~regexp.matched THEN ScanPatterns(text, Tail(words))
                    ELSE LET t == TryRegex(text, regexp)
                         IN IF t # Resolved(FALSE) THEN t
                            ELSE ScanPatterns(text, Tail(words))

NullNote == [cw |-> NullStr, text |-> <<"<no note>">>]

checkWordMute(note, mutedWords) ==
    IF note = NullNote THEN Resolved(FALSE)
    ELSE IF NoteText(note) = <<>> THEN Resolved(FALSE)
    ELSE ScanPatterns(NoteText(note), mutedWords)

NoCheck == [pc |-> "idle", note |-> NullNote, mutedWords |-> <<>>, out |-> Pending]

wordFrame == <<unit, store, now, scanVars, rerunVars, timelineVars, keyedVars, memberVars,
               chain>>

\* checkWordMute(note, mutedWords) is called and returns
CheckWordMute ==
    /\ unit = "wordmute"
    /\ wm.pc = "call"
    /\ wm' = [wm EXCEPT !.pc = "done", !.out = checkWordMute(wm.note, wm.mutedWords)]
    /\ UNCHANGED wordFrame

----------------------------------------------------------------------------
(* The filter steps of db/scylla.ts (part_002) and the visibility check of
   NoteRepository.  An argument is an array of ids or an object with an id. *)

IdList(ids) == [array |-> TRUE, items |-> ids]
UserObject(id) == [array |-> FALSE, items |-> {id}]
NullUser == [array |-> FALSE, items |-> {}]

\* user.id
IdOf(user) == CHOOSE id \in user.items : TRUE

\* a row of the note table, here a plain public note of A with a text
BaseNote ==
    [id |-> "n", userId |-> "A", userHost |-> "", visibility |-> "public",
     visibleUserIds |-> {}, mentions |-> {}, channelId |-> "", replyId |-> "",
     replyUserId |-> "", renoteId |-> "", renoteUserId |-> "", text |-> Str_foo,
     cw |-> NullStr, createdAt |-> 1]

filterVisibility(notes, user, followingIds) ==
    IF user = NullUser
    THEN SelectSeq(notes, LAMBDA note : note.visibility \in {"public", "home"})
    ELSE SelectSeq(notes, LAMBDA note :
             \/ note.visibility \in {"public", "home"}
             \/ note.userId = IdOf(user)
             \/ IdOf(user) \in note.visibleUserIds
             \/ IdOf(user) \in note.mentions
             \/ /\ note.visibility = "followers"
                /\ \/ note.userId \in followingIds.items
                   \/ note.replyUserId = IdOf(user))

\* NoteRepository.isVisibleForMe for a local viewer, whose followings are the
\* members of LocalFollowingsCache
isVisibleForMe(note, me, followingIds) ==
    IF note.visibility = "specified"
    THEN IF me = NullUser THEN FALSE
         ELSE IF IdOf(me) = note.userId THEN TRUE
         ELSE IdOf(me) \in note.visibleUserIds
    ELSE IF note.visibility = "followers"
    THEN IF me = NullUser THEN FALSE
         ELSE IF IdOf(me) = note.userId THEN TRUE
         ELSE IF note.replyId # "" /\ IdOf(me) = note.replyUserId THEN TRUE
         ELSE IF IdOf(me) \in note.mentions THEN TRUE
         ELSE note.userId \in followingIds.items
    ELSE TRUE

\* what a step gives: rows, or a TypeError
Ok(rows) == [threw |-> FALSE, rows |-> rows]
Throws == [threw |-> TRUE, rows |-> <<>>]

filterChannel(notes, user, followingIds) ==
    IF user = NullUser THEN Ok(SelectSeq(notes, LAMBDA note : note.channelId = ""))
    ELSE IF \E i \in 1 .. Len(notes) : notes[i].channelId # ""
    THEN Ok(SelectSeq(notes, LAMBDA note :
                note.channelId = "" \/ note.channelId \in followingIds.items))
    ELSE Ok(notes)

filterReply(notes, withReplies, user) ==
    IF user = NullUser
    THEN Ok(SelectSeq(notes, LAMBDA note :
                note.replyId = "" \/ note.replyUserId = note.userId))
    ELSE IF ~withReplies
    THEN Ok(SelectSeq(notes, LAMBDA note :
                \/ note.replyId = ""
                \/ note.replyUserId = IdOf(user)
                \/ note.userId = IdOf(user)
                \/ note.replyUserId = note.userId))
    ELSE Ok(notes)

\* variant: exclude is not looked at, the ids are read when a row is tested
filterMutedUserNoExclude(notes, mutedIds, mutedInstances, exclude) ==
    IF ~mutedIds.array /\ Len(notes) > 0 THEN Throws
    ELSE Ok(SelectSeq(notes, LAMBDA note :
                /\ note.userId \notin mutedIds.items
                /\ ~(note.replyUserId # "" /\ note.replyUserId \in mutedIds.items)
                /\ ~(note.renoteUserId # "" /\ note.renoteUserId \in mutedIds.items)
                /\ ~(note.userHost # "" /\ note.userHost \in mutedInstances.items)))

\* mutedIds.filter is called as soon as exclude is given, mutedIds.includes
\* when a row is tested: both need an array.  No row has a reply or renote
\* host.
filterMutedUser(notes, mutedIds, mutedInstances, exclude) ==
    IF exclude # NullUser /\ ~mutedIds.array THEN Throws
    ELSE IF ~mutedIds.array /\ Len(notes) > 0 THEN Throws
    ELSE LET userIds == IF exclude # NullUser /\ ~exclude.array
                        THEN mutedIds.items \ exclude.items
                        ELSE mutedIds.items
         IN Ok(SelectSeq(notes, LAMBDA note :
                   /\ note.userId \notin userIds
                   /\ ~(note.replyUserId # "" /\ note.replyUserId \in userIds)
                   /\ ~(note.renoteUserId # "" /\ note.renoteUserId \in userIds)
                   /\ ~(note.userHost # "" /\ note.userHost \in mutedInstances.items)))

\* async getWordHardMute: a promise of the check (the store is Scylla, and the
\* me handed over by filterMutedNote is the user object, never a row's userId)
getWordHardMute(note, me, mutedWords) ==
    [promise |-> TRUE,
     settles |-> IF Len(mutedWords) > 0 THEN checkWordMute(note, mutedWords)
                 ELSE Resolved(FALSE)]

\* !value: a promise is an object, hence truthy
Not(value) == IF value.promise THEN FALSE ELSE value.settles # Resolved(TRUE)

filterMutedNote(notes, user, mutedWords) ==
    IF Len(mutedWords) > 0
    THEN Ok(SelectSeq(notes, LAMBDA note : Not(getWordHardMute(note, user, mutedWords))))
    ELSE Ok(notes)

filterBlockUser(notes, blockIds) ==
    IF ~blockIds.array /\ Len(notes) > 0 THEN Throws
    ELSE Ok(SelectSeq(notes, LAMBDA note :
                /\ note.userId \notin blockIds.items
                /\ ~(note.replyUserId # "" /\ note.replyUserId \in blockIds.items)
                /\ ~(note.renoteUserId # "" /\ note.renoteUserId \in blockIds.items)))

\* note.text
HasText(note) == note.text # NullStr /\ note.text # <<>>

filterMutedRenotes(notes, muteeIds) ==
    IF ~muteeIds.array /\ \E i \in 1 .. Len(notes) :
                             ~HasText(notes[i]) /\ notes[i].renoteId # ""
    THEN Throws
    ELSE Ok(SelectSeq(notes, LAMBDA note :
                HasText(note) \/ note.renoteId = "" \/ note.userId \notin muteeIds.items))

NoContext ==
    [followingChannelIds |-> {}, followingUserIds |-> {}, mutedUserIds |-> {},
     mutedInstances |-> {}, mutedWords |-> <<>>, blockIds |-> {}, renoteMutedIds |-> {}]

\* steps 4 to 7 of the chain.  wiring "timeline": the arguments the closure of
\* notes/timeline.ts hands over, the user second; wiring "declared": the
\* arguments the declarations of the steps name
StepNames == {"visibility", "mute", "block", "renoteMute"}

Step(name, notes, user, ctx, wiring) ==
    CASE name = "visibility" ->
            Ok(filterVisibility(notes, user, IdList(ctx.followingUserIds)))
      [] name = "mute" ->
            LET byUser == IF wiring = "timeline"
                          THEN filterMutedUser(notes, user, IdList(ctx.mutedUserIds),
                                               IdList(ctx.mutedInstances))
                          ELSE filterMutedUser(notes, IdList(ctx.mutedUserIds),
                                               IdList(ctx.mutedInstances), NullUser)
            IN IF byUser.threw THEN byUser
               ELSE filterMutedNote(byUser.rows, user, ctx.mutedWords)
      [] name = "block" ->
            IF wiring = "timeline" THEN filterBlockUser(notes, user)
            ELSE filterBlockUser(notes, IdList(ctx.blockIds))
      [] name = "renoteMute" ->
            IF wiring = "timeline" THEN filterMutedRenotes(notes, user)
            ELSE filterMutedRenotes(notes, IdList(ctx.renoteMutedIds))

RECURSIVE RunSteps(_, _, _, _, _)
RunSteps(order, notes, user, ctx, wiring) ==
    IF Len(order) = 0 THEN Ok(notes)
    ELSE LET first == Step(order[1], notes, user, ctx, wiring)
         IN IF first.threw THEN first
            ELSE RunSteps(Tail(order), first.rows, user, ctx, wiring)

Orders == {o \in [1 .. 4 -> StepNames] : \A n \in StepNames : \E i \in 1 .. 4 : o[i] = n}

ChainOrder == <<"visibility", "mute", "block", "renoteMute">>

\* what the promise of the closure of notes/timeline.ts settles to: the request
\* has its default flags (no reply, file or renote option set)
FilterClosure(notes, user, ctx) ==
    LET valid == SelectSeq(notes, LAMBDA n :
                     n.userId \in {IdOf(user)} \cup ctx.followingUserIds)
        inChannel == filterChannel(valid, user, IdList(ctx.followingChannelIds))
        replies == filterReply(inChannel.rows, FALSE, user)
        steps == RunSteps(ChainOrder, replies.rows, user, ctx, "timeline")
    IN IF steps.threw THEN steps
       ELSE Ok(SelectSeq(steps.rows, LAMBDA n : n.visibility # "hidden"))

NoChain ==
    [pc |-> "idle", notes |-> <<>>, user |-> NullUser, ctx |-> NoContext, out |-> Pending,
     visible |-> {}, wiring |-> "declared", byOrder |-> <<>>, day |-> 0, scanned |-> 0,
     found |-> <<>>, closure |-> Pending]

chainFrame == <<unit, store, now, scanVars, rerunVars, timelineVars, keyedVars, memberVars,
                wm>>

\* the visibility step on a batch, and isVisibleForMe on each of its rows
VisibilityStep ==
    /\ unit = "visibility"
    /\ chain.pc = "call"
    /\ chain' = [chain EXCEPT
                   !.pc = "done",
                   !.out = Resolved(filterVisibility(chain.notes, chain.user,
                                                     IdList(chain.ctx.followingUserIds))),
                   !.visible = {i \in 1 .. Len(chain.notes) :
                                   isVisibleForMe(chain.notes[i], chain.user,
                                                  IdList(chain.ctx.followingUserIds))}]
    /\ UNCHANGED chainFrame

\* the request's limit, the rows one range scan may give, the day partitions
\* one call of the scanner visits
HomeLimit == 10
HomeQueryLimit == 100
SparseTimelineDays == 3

\* filter.note(notes) with the closure of notes/timeline.ts, an async function:
\* what the call gives is a promise
CallFilterNote(notes, user, ctx) ==
    [promise |-> TRUE, settles |-> FilterClosure(notes, user, ctx)]

\* ...(value): a promise is not iterable
Spread(value) == IF value.promise THEN Throws ELSE value.settles

\* the home-timeline request on the viewer's feed (chain.notes, newest first),
\* one iteration of the scanner's loop at a time; the handler returns what the
\* scanner found once the scanner is through, fewer rows than the limit
HomeScan ==
    /\ unit = "home"
    /\ chain.pc = "scan"
    /\ LET batch == SelectSeq(chain.notes, LAMBDA n : n.createdAt = chain.day)
           given == CallFilterNote(batch, chain.user, chain.ctx)
           kept == IF Len(batch) > 0 THEN Spread(given) ELSE Ok(<<>>)
           grown == chain.found \o kept.rows
           visited == IF Len(batch) < HomeQueryLimit THEN chain.scanned + 1
                      ELSE chain.scanned
       IN chain' =
             IF kept.threw
             THEN [chain EXCEPT !.pc = "done", !.closure = given.settles, !.out = Thrown]
             ELSE IF Len(grown) < HomeLimit /\ visited < SparseTimelineDays
             THEN [chain EXCEPT !.found = grown, !.scanned = visited, !.day = @ - 1]
             ELSE [chain EXCEPT !.pc = "done", !.found = grown, !.scanned = visited,
                                !.out = Resolved(SubSeq(grown, 1, IF Len(grown) < HomeLimit
                                                                  THEN Len(grown)
                                                                  ELSE HomeLimit))]
    /\ UNCHANGED chainFrame

\* steps 4 to 7 are run on the batch in every order
ChainSteps ==
    /\ unit = "chain"
    /\ chain.pc = "call"
    /\ chain' = [chain EXCEPT
                   !.pc = "done",
                   !.out = Resolved(RunSteps(ChainOrder, chain.notes, chain.user,
                                             chain.ctx, chain.wiring)),
                   !.byOrder = [o \in Orders |->
                                   RunSteps(o, chain.notes, chain.user, chain.ctx,
                                            chain.wiring)]]
    /\ UNCHANGED chainFrame

----------------------------------------------------------------------------
(* Requests *)

UntilId == <<3 * DayLen + 1, 7>>

\* the pagination bounds of a request: (untilId, sinceDate)
Bounds == {<<NoId, None>>, <<UntilId, None>>, <<UntilId, 2 * DayLen + 1>>}

\* the scoping ids a request of kind k may carry, present or missing
ScopeVariants(k) ==
    CASE k \in {"home", "user", "notification", "reaction"} ->
            [userId : {"", "a"}, noteId : {""}, channelId : {""}, userIds : {<<>>}]
      [] k = "renotes" ->
            [userId : {"a"}, noteId : {"", "a"}, channelId : {""}, userIds : {<<>>}]
      [] k = "channel" ->
            [userId : {"a"}, noteId : {""}, channelId : {"", "a"}, userIds : {<<>>}]
      [] k = "list" ->
            [userId : {"a"}, noteId : {""}, channelId : {""},
             userIds : {<<>>, <<"a">>, <<"a", "b">>, <<"b", "a">>}]
      [] OTHER ->
            [userId : {"a"}, noteId : {""}, channelId : {""}, userIds : {<<>>}]

Descriptor(limit, b, v) ==
    [limit |-> limit, untilId |-> b[1], untilDate |-> None, sinceId |-> NoId,
     sinceDate |-> b[2], noteId |-> v.noteId, channelId |-> v.channelId,
     userIds |-> v.userIds]

ScanIdle ==
    /\ pc = "call"
    /\ result = Pending
    /\ untilDate = None
    /\ sinceDate = None
    /\ scannedPartitions = 0
    /\ found = <<>>
    /\ foundLimit = 0
    /\ scans = <<>>
    /\ exhausted = {}
    /\ run = 1
    /\ firstResult = Pending

TimelineIdle ==
    /\ tpc = "idle"
    /\ foundPacked = <<>>
    /\ response = Pending

PureIdle ==
    /\ wm = NoCheck
    /\ chain = NoChain

MemberIdle ==
    /\ rsets = [k \in MemberKeys |-> {}]
    /\ marks = EmptyDb
    /\ source = [c \in Caches |-> {}]
    /\ scenario = [c \in Caches |-> NoScenario]

CacheIdle ==
    /\ MemberIdle
    /\ redis = EmptyDb
    /\ ttl = 1
    /\ fc = NoFetch
    /\ lastGet = NoGet
    /\ lastDelete = NoDelete
    /\ lastWrite = EmptyDb
    /\ renewed = {}

InitScan ==
    /\ unit = "scan"
    /\ kind \in FeedType
    /\ store \in StoresFor(kind)
    /\ now = EndOfTime
    /\ queryLimit \in QueryLimits
    /\ \E limit \in Limits, b \in Bounds, v \in ScopeVariants(kind) :
          /\ ps = Descriptor(limit, b, v)
          /\ userId = v.userId
    /\ ps0 = ps
    /\ maxPartitions \in PartitionBudgets
    /\ ScanIdle
    /\ TimelineIdle
    /\ CacheIdle
    /\ PureIdle

NextScan == Exec \/ Iterate \/ ScanFails \/ Return

SpecScan == InitScan /\ [][NextScan]_vars

\* a request that carries an untilId cursor and passes the validation
InitRerun ==
    /\ InitScan
    /\ ps.untilId # NoId
    /\ ~MissingScope(kind, ps, userId)

NextRerun == NextScan \/ Rerun

SpecRerun == InitRerun /\ [][NextRerun]_vars

InitTimeline ==
    /\ unit = "timeline"
    /\ store \in SubsetsUpTo(HomeRows, MaxFeedRows)
    /\ now = EndOfTime
    /\ queryLimit \in QueryLimits
    /\ kind = "home"
    /\ userId = "a"
    /\ \E limit \in Limits, b \in Bounds :
          ps = Descriptor(limit, b, [noteId |-> "", channelId |-> "", userIds |-> <<>>])
    /\ ps0 = ps
    /\ maxPartitions \in PartitionBudgets
    /\ ScanIdle
    /\ tpc = "exec"
    /\ foundPacked = <<>>
    /\ response = Pending
    /\ CacheIdle
    /\ PureIdle

NextTimeline == NextScan \/ TimelinePack \/ TimelineThrows

SpecTimeline == InitTimeline /\ [][NextTimeline]_vars

\* a cache instance constructed over an empty keyspace
InitCache ==
    /\ unit = "cache"
    /\ store = {}
    /\ now = 0
    /\ queryLimit = 1
    /\ kind = "home"
    /\ userId = "a"
    /\ ps = Descriptor(1, <<NoId, None>>, [noteId |-> "", channelId |-> "", userIds |-> <<>>])
    /\ ps0 = ps
    /\ maxPartitions = 1
    /\ ScanIdle
    /\ TimelineIdle
    /\ redis = EmptyDb
    /\ ttl \in 1 .. MaxTtl
    /\ fc = NoFetch
    /\ lastGet = NoGet
    /\ lastDelete = NoDelete
    /\ lastWrite = EmptyDb
    /\ renewed = {}
    /\ MemberIdle
    /\ PureIdle

CacheCall ==
    \/ \E key \in CacheKeys, value \in Values : CacheSet(key, value)
    \/ \E key \in CacheKeys, renew \in BOOLEAN : CacheGet(key, renew)

FetchCall ==
    \/ \E key \in CacheKeys, renew, maybe \in BOOLEAN, validator \in Validators :
          FetchGet(key, renew, maybe, validator)
    \/ \E key \in CacheKeys, maybe \in BOOLEAN : FetchGetFails(key, maybe)
    \/ \E value \in Values \cup {Undefined} : FetchProduce(value)
    \/ FetchProduceFails
    \/ FetchSet
    \/ FetchSetFails

NextCache == CacheCall \/ Tick

SpecCache == InitCache /\ [][NextCache]_vars

\* the argument lists of delete
KeyLists == {<<>>} \cup {<<k>> : k \in CacheKeys} \cup {<<k, q>> : k, q \in CacheKeys}

DeleteCall == \E keys \in KeyLists : CacheDelete(keys)

NextDelete == CacheCall \/ DeleteCall \/ Tick

SpecDelete == InitCache /\ [][NextDelete]_vars

\* calls of fetch and fetchMaybe, one after the other
SpecFetch == InitCache /\ [][FetchCall]_vars

\* what the fetchers find: nothing, or one id
SourceLists == [Caches -> {{}, {"a"}}]

\* membership caches constructed over an empty keyspace
InitMember ==
    /\ unit = "member"
    /\ store = {}
    /\ now = 0
    /\ queryLimit = 1
    /\ kind = "home"
    /\ userId = "a"
    /\ ps = Descriptor(1, <<NoId, None>>, [noteId |-> "", channelId |-> "", userIds |-> <<>>])
    /\ ps0 = ps
    /\ maxPartitions = 1
    /\ ScanIdle
    /\ TimelineIdle
    /\ redis = EmptyDb
    /\ ttl = 1
    /\ fc = NoFetch
    /\ lastGet = NoGet
    /\ lastDelete = NoDelete
    /\ lastWrite = EmptyDb
    /\ renewed = {}
    /\ PureIdle
    /\ rsets = [k \in MemberKeys |-> {}]
    /\ marks = EmptyDb
    /\ source \in SourceLists
    /\ scenario = [c \in Caches |-> NoScenario]

MemberCall ==
    \/ \E c \in Caches : SetCacheFetch(c)
    \/ \E c \in Caches, ids \in SUBSET Ids : SetCacheFollow(c, ids)
    \/ \E c \in Caches, ids \in SUBSET Ids : SetCacheUnfollow(c, ids)

NextMember == MemberCall \/ MemberTick

SpecMember == InitMember /\ [][NextMember]_vars

\* one owner follows somebody, the other owner and the channel list nobody
InitOwner ==
    /\ InitMember
    /\ source = [c \in Caches |-> IF c = <<"follow", "o1">> THEN {"a"} ELSE {}]

SpecOwner == InitOwner /\ [][NextMember]_vars

\* the notes and the muted-word lists checkWordMute is called with
NoteTexts == {NullStr, <<>>, Str_foo \o <<" ">> \o Str_only, Str_FOO \o <<" ">> \o Str_bar}

Notes == [cw : {NullStr, Str_bar}, text : NoteTexts] \cup {NullNote}

Patterns ==
    {ListPattern(<<Str_foo, Str_bar>>), ListPattern(<<Str_FOO>>), ListPattern(<<>>),
     ListPattern(<<<<>>, Str_only>>),
     StringPattern(<<"/">> \o Str_foo \o <<"/", "i">>),
     StringPattern(<<"/">> \o Str_foo \o <<"/">>),
     StringPattern(<<"/", "f", "*", "/">>),
     StringPattern(Str_foo),
     StringPattern(<<"/", "(", "/">>),
     StringPattern(<<"/", "*", "/">>)}

MutedWordLists == UNION {[1 .. n -> Patterns] : n \in 0 .. MaxPatterns}

InitWordMute ==
    /\ unit = "wordmute"
    /\ store = {}
    /\ now = 0
    /\ queryLimit = 1
    /\ kind = "home"
    /\ userId = "a"
    /\ ps = Descriptor(1, <<NoId, None>>, [noteId |-> "", channelId |-> "", userIds |-> <<>>])
    /\ ps0 = ps
    /\ maxPartitions = 1
    /\ ScanIdle
    /\ TimelineIdle
    /\ CacheIdle
    /\ chain = NoChain
    /\ \E note \in Notes, words \in MutedWordLists :
           wm = [pc |-> "call", note |-> note, mutedWords |-> words, out |-> Pending]

SpecWordMute == InitWordMute /\ [][CheckWordMute]_vars

\* the rows the visibility step is tried on: only a specified row lists
\* recipients
VisibilityNotes ==
    {n \in {[BaseNote EXCEPT !.userId = u, !.visibility = v, !.visibleUserIds = l,
                             !.mentions = m, !.replyUserId = r,
                             !.replyId = IF r = "" THEN "" ELSE "p"] :
                u \in {"V", "A", "B"}, v \in {"public", "home", "followers", "specified"},
                l \in SUBSET {"V"}, m \in SUBSET {"V"}, r \in {"", "V", "B"}} :
        n.visibility # "specified" => n.visibleUserIds = {}}

InitVisibility ==
    /\ unit = "visibility"
    /\ store = {}
    /\ now = 0
    /\ queryLimit = 1
    /\ kind = "home"
    /\ userId = "a"
    /\ ps = Descriptor(1, <<NoId, None>>, [noteId |-> "", channelId |-> "", userIds |-> <<>>])
    /\ ps0 = ps
    /\ maxPartitions = 1
    /\ ScanIdle
    /\ TimelineIdle
    /\ CacheIdle
    /\ wm = NoCheck
    /\ \E n \in VisibilityNotes, u \in {NullUser, UserObject("V")}, f \in SUBSET {"A"} :
           chain = [NoChain EXCEPT !.pc = "call", !.notes = <<n>>, !.user = u,
                                   !.ctx = [NoContext EXCEPT !.followingUserIds = f]]

SpecVisibility == InitVisibility /\ [][VisibilityStep]_vars

\* the rows the steps are tried on: a note of A, a followers-only note of B,
\* a bare renote by A of a note of B, a note of B, a specified note of A that
\* mentions V, a reply of A to B
ChainNotes ==
    {[BaseNote EXCEPT !.id = "n1"],
     [BaseNote EXCEPT !.id = "n2", !.userId = "B", !.visibility = "followers"],
     [BaseNote EXCEPT !.id = "n3", !.text = <<>>, !.renoteId = "n4", !.renoteUserId = "B"],
     [BaseNote EXCEPT !.id = "n4", !.userId = "B"],
     [BaseNote EXCEPT !.id = "n5", !.visibility = "specified", !.mentions = {"V"}],
     [BaseNote EXCEPT !.id = "n6", !.replyId = "n4", !.replyUserId = "B"]}

Batches == {<<>>} \cup {<<n>> : n \in ChainNotes}
               \cup {b \in {<<n, m>> : n \in ChainNotes, m \in ChainNotes} : b[1] # b[2]}

Contexts ==
    {[NoContext EXCEPT !.followingUserIds = f, !.mutedUserIds = m, !.mutedWords = w,
                       !.blockIds = b, !.renoteMutedIds = r] :
        f \in SUBSET {"A"}, m \in SUBSET {"B"}, w \in {<<>>, <<ListPattern(<<Str_bar>>)>>},
        b \in SUBSET {"B"}, r \in SUBSET {"A"}}

InitChain ==
    /\ unit = "chain"
    /\ store = {}
    /\ now = 0
    /\ queryLimit = 1
    /\ kind = "home"
    /\ userId = "a"
    /\ ps = Descriptor(1, <<NoId, None>>, [noteId |-> "", channelId |-> "", userIds |-> <<>>])
    /\ ps0 = ps
    /\ maxPartitions = 1
    /\ ScanIdle
    /\ TimelineIdle
    /\ CacheIdle
    /\ wm = NoCheck
    /\ \E batch \in Batches, ctx \in Contexts, w \in {"declared", "timeline"} :
           chain = [NoChain EXCEPT !.pc = "call", !.notes = batch, !.user = UserObject("V"),
                                   !.ctx = ctx, !.wiring = w]

SpecChain == InitChain /\ [][ChainSteps]_vars

\* the word-mute step on its own: rows of A and B with the texts "foo", "bar"
\* and "foo only", in batches of up to three, and the viewer's muted words
MutedNoteRows ==
    {[BaseNote EXCEPT !.id = "w1"],
     [BaseNote EXCEPT !.id = "w2", !.userId = "B", !.text = Str_bar],
     [BaseNote EXCEPT !.id = "w3", !.text = Str_foo \o <<" ">> \o Str_only],
     [BaseNote EXCEPT !.id = "w4", !.userId = "B", !.cw = Str_bar]}

MutedNoteBatches ==
    {<<>>} \cup {<<n>> : n \in MutedNoteRows}
           \cup {b \in {<<n, m>> : n \in MutedNoteRows, m \in MutedNoteRows} : b[1] # b[2]}
           \cup {<<[BaseNote EXCEPT !.id = "w1"],
                   [BaseNote EXCEPT !.id = "w2", !.userId = "B", !.text = Str_bar],
                   [BaseNote EXCEPT !.id = "w3", !.text = Str_foo \o <<" ">> \o Str_only]>>}

MutedNoteWords ==
    {<<>>, <<ListPattern(<<Str_bar>>)>>, <<ListPattern(<<Str_only>>)>>,
     <<ListPattern(<<Str_foo, Str_bar>>)>>,
     <<ListPattern(<<Str_bar>>), StringPattern(<<"/">> \o Str_foo \o <<"/">>)>>}

\* filterMutedNote(filtered, user, mutedWords) is called and returns
MutedNoteStep ==
    /\ unit = "mutednote"
    /\ chain.pc = "call"
    /\ chain' = [chain EXCEPT
                   !.pc = "done",
                   !.out = Resolved(filterMutedNote(chain.notes, chain.user,
                                                    chain.ctx.mutedWords))]
    /\ UNCHANGED chainFrame

InitMutedNote ==
    /\ unit = "mutednote"
    /\ store = {}
    /\ now = 0
    /\ queryLimit = 1
    /\ kind = "home"
    /\ userId = "a"
    /\ ps = Descriptor(1, <<NoId, None>>, [noteId |-> "", channelId |-> "", userIds |-> <<>>])
    /\ ps0 = ps
    /\ maxPartitions = 1
    /\ ScanIdle
    /\ TimelineIdle
    /\ CacheIdle
    /\ wm = NoCheck
    /\ \E batch \in MutedNoteBatches, words \in MutedNoteWords :
           chain = [NoChain EXCEPT !.pc = "call", !.notes = batch, !.user = UserObject("V"),
                                   !.ctx = [NoContext EXCEPT !.mutedWords = words]]

SpecMutedNote == InitMutedNote /\ [][MutedNoteStep]_vars

\* the viewer's feed, newest first: today a public note of A and one of B, the
\* day before a followers-only note of A, a note of V and a followers-only
\* note of B
HomeFeed ==
    <<[BaseNote EXCEPT !.id = "a1", !.createdAt = 2],
      [BaseNote EXCEPT !.id = "b1", !.userId = "B", !.createdAt = 2],
      [BaseNote EXCEPT !.id = "a2", !.visibility = "followers"],
      [BaseNote EXCEPT !.id = "v1", !.userId = "V"],
      [BaseNote EXCEPT !.id = "b2", !.userId = "B", !.visibility = "followers"]>>

InitHome ==
    /\ unit = "home"
    /\ store = {}
    /\ now = 0
    /\ queryLimit = 1
    /\ kind = "home"
    /\ userId = "a"
    /\ ps = Descriptor(1, <<NoId, None>>, [noteId |-> "", channelId |-> "", userIds |-> <<>>])
    /\ ps0 = ps
    /\ maxPartitions = 1
    /\ ScanIdle
    /\ TimelineIdle
    /\ CacheIdle
    /\ wm = NoCheck
    /\ \E ids \in SUBSET {"a1", "b1", "a2", "v1", "b2"}, f \in SUBSET {"A", "B"} :
           chain = [NoChain EXCEPT !.pc = "scan",
                                   !.notes = SelectSeq(HomeFeed, LAMBDA n : n.id \in ids),
                                   !.user = UserObject("V"),
                                   !.ctx = [NoContext EXCEPT !.followingUserIds = f],
                                   !.wiring = "timeline", !.day = 2]

SpecHome == InitHome /\ [][HomeScan]_vars

\* store and cache I/O, each of which may fail
InitIO == InitScan \/ InitCache

NextIO == NextScan \/ FetchCall

SpecIO == InitIO /\ [][NextIO]_vars

----------------------------------------------------------------------------
(* preparePaginationQuery on its own, and the parameters of the first scan *)

SinceId == <<DayLen + 1, 7>>

\* explicit timestamps a request may carry: none, the epoch, two later instants
UntilDates == {None, 0, 2 * DayLen, 3 * DayLen + 2}
SinceDates == {None, 0, DayLen, 2 * DayLen + 1}

NoPrepared == [query |-> <<>>, untilDate |-> None, sinceDate |-> None, params |-> <<>>]

InitPrepare ==
    /\ unit = "prepare"
    /\ kind \in FeedType
    /\ store = {}
    /\ now = EndOfTime
    /\ queryLimit \in QueryLimits
    /\ \E limit \in Limits, v \in ScopeVariants(kind), ui \in {NoId, UntilId},
          ud \in UntilDates, si \in {NoId, SinceId}, sd \in SinceDates :
          /\ ps = [Descriptor(limit, <<ui, sd>>, v) EXCEPT !.untilDate = ud, !.sinceId = si]
          /\ userId = v.userId
    /\ ps0 = ps
    /\ maxPartitions = 1
    /\ ScanIdle
    /\ TimelineIdle
    /\ CacheIdle
    /\ wm = NoCheck
    /\ chain = [NoChain EXCEPT !.pc = "call", !.out = NoPrepared]

\* const { query, untilDate, sinceDate } = preparePaginationQuery(kind, ps)
Prepare ==
    /\ unit = "prepare"
    /\ chain.pc = "call"
    /\ LET r == Prepared(kind, ps, now)
       IN chain' = [chain EXCEPT !.pc = "prepared",
                                 !.out = [@ EXCEPT !.query = r.query,
                                                   !.untilDate = r.untilDate,
                                                   !.sinceDate = r.sinceDate]]
    /\ UNCHANGED chainFrame

\* the first iteration of the loop up to scyllaClient.execute(query, params)
BindParams ==
    /\ unit = "prepare"
    /\ chain.pc = "prepared"
    /\ ~MissingScope(kind, ps, userId)
    /\ ~NoTarget(kind, ps)
    /\ chain' = [chain EXCEPT !.pc = "bound",
                              !.out.params = ScanParams(kind, ps, userId,
                                                        chain.out.untilDate,
                                                        chain.out.sinceDate)]
    /\ ps' = PopTarget(kind, ps)
    /\ UNCHANGED <<unit, store, now, queryLimit, kind, ps0, userId, maxPartitions, pc,
                   result, untilDate, sinceDate, scannedPartitions, found, foundLimit,
                   scans, exhausted, rerunVars, timelineVars, keyedVars, memberVars, wm>>

NextPrepare == Prepare \/ BindParams

SpecPrepare == InitPrepare /\ [][NextPrepare]_vars

----------------------------------------------------------------------------
(* The scanner's cursor: a kind bound to a scoping id and a day, one bound to
   a day only, one bound to a scoping id only, and the list kind with two
   target ids *)

CursorKinds == {"home", "local", "user", "list"}

\* a request that passes the validation; the table of the kind that binds no
\* scoping id holds rows of any author
InitCursor ==
    /\ unit = "scan"
    /\ kind \in CursorKinds
    /\ store \in IF kind = "local" THEN SubsetsUpTo(Rows, MaxRows) ELSE StoresFor(kind)
    /\ now = EndOfTime
    /\ queryLimit \in QueryLimits
    /\ \E limit \in Limits, b \in Bounds, v \in ScopeVariants(kind) :
          /\ ps = Descriptor(limit, b, v)
          /\ userId = v.userId
    /\ ~MissingScope(kind, ps, userId)
    /\ kind = "list" => Len(ps.userIds) = 2
    /\ ps0 = ps
    /\ maxPartitions \in PartitionBudgets
    /\ ScanIdle
    /\ TimelineIdle
    /\ CacheIdle
    /\ PureIdle

SpecCursor == InitCursor /\ [][NextScan]_vars

----------------------------------------------------------------------------
(* Two requests call fetch for one key of one cache at the same time.  Each
   await of a call is a step; the steps of the two calls interleave. *)

Callers == {1, 2}

\* a call of fetch that has not started
NoRace(key) ==
    [pc |-> "idle", key |-> key, cached |-> Undefined, gave |-> Undefined,
     value |-> Undefined, produced |-> 0, at |-> None, result |-> Pending]

InitRace ==
    /\ unit = "race"
    /\ store = {}
    /\ now = 0
    /\ queryLimit = 1
    /\ kind = "home"
    /\ userId = "a"
    /\ ps = Descriptor(1, <<NoId, None>>, [noteId |-> "", channelId |-> "", userIds |-> <<>>])
    /\ ps0 = ps
    /\ maxPartitions = 1
    /\ ScanIdle
    /\ TimelineIdle
    /\ redis = EmptyDb
    /\ ttl \in 1 .. MaxTtl
    /\ \E key \in CacheKeys : fc = [c \in Callers |-> NoRace(key)]
    /\ lastGet = NoGet
    /\ lastDelete = NoDelete
    /\ lastWrite = EmptyDb
    /\ renewed = {}
    /\ MemberIdle
    /\ PureIdle

\* const cachedValue = await this.get(key, renew), no validator, no renewal
RaceGet(c) ==
    /\ unit = "race"
    /\ fc[c].pc = "idle"
    /\ LET cachedValue == GetValue(redis, prefixedKey(fc[c].key))
           hit == CacheHit(cachedValue, NoValidator)
       IN fc' = [fc EXCEPT ![c].pc = IF hit THEN "done" ELSE "miss",
                           ![c].cached = cachedValue,
                           ![c].result = IF hit THEN Resolved(cachedValue) ELSE Pending]
    /\ redis' = GetEffect(redis, prefixedKey(fc[c].key), FALSE, ttl, now)
    /\ UNCHANGED <<unit, now, ttl, lastGet, lastDelete, lastWrite, renewed, scanFrame>>

\* const value = await fetcher(): the caller's own fetcher resolves
RaceProduce(c, value) ==
    /\ unit = "race"
    /\ fc[c].pc = "miss"
    /\ fc' = [fc EXCEPT ![c].pc = "produced", ![c].gave = value, ![c].value = value,
                        ![c].produced = @ + 1]
    /\ UNCHANGED <<unit, now, redis, ttl, lastGet, lastDelete, lastWrite, renewed,
                   scanFrame>>

\* await this.set(key, value); return value
RaceSet(c) ==
    /\ unit = "race"
    /\ fc[c].pc = "produced"
    /\ redis' = RedisSetEx(redis, prefixedKey(fc[c].key), encode(fc[c].value), ttl, now)
    /\ fc' = [fc EXCEPT ![c].pc = "done", ![c].at = now,
                        ![c].result = Resolved(fc[c].value)]
    /\ UNCHANGED <<unit, now, ttl, lastGet, lastDelete, lastWrite, renewed, scanFrame>>

\* a second passes between two steps
RaceTick ==
    /\ unit = "race"
    /\ now < MaxClock
    /\ now' = now + 1
    /\ redis' = Purge(redis, now + 1)
    /\ UNCHANGED <<unit, ttl, fc, lastGet, lastDelete, lastWrite, renewed, scanFrame>>

NextRace ==
    \/ \E c \in Callers : RaceGet(c)
    \/ \E c \in Callers, value \in Values : RaceProduce(c, value)
    \/ \E c \in Callers : RaceSet(c)
    \/ RaceTick

SpecRace == InitRace /\ [][NextRace]_vars

----------------------------------------------------------------------------
(* SetCache.fetch step by step, for one cache (the followings of owner o1).
   Each await is a step: SCARD, EXISTS, DEL, the fetcher, SADD, SET.  The
   requests of two callers, one fetch each, interleave or follow one another;
   a caller reads the set once its own fetch has returned. *)

SyncCache == <<"follow", "o1">>
SyncKey == SetKey("follow", "o1")

\* the marker's expiry, None when there is no marker
MarkOf(ms) == IF TtlKey(SyncKey) \in DOMAIN ms THEN ms[TtlKey(SyncKey)] ELSE None

NoRead == [done |-> FALSE, all |-> {}, has |-> FALSE, isA |-> FALSE]

\* a caller; before is the cache as the caller's fetch found it, after the
\* cache as it left it, quiet says that nothing else has written to the cache
\* or to the source in between
NoSync ==
    [role |-> "sync", pc |-> "idle", ids |-> {}, produced |-> 0,
     quiet |-> TRUE, before |-> [set |-> {}, mark |-> None, source |-> {}],
     after |-> [set |-> {}, mark |-> None],
     read |-> NoRead, op |-> "none", target |-> {}]

InFlight(r) == r.pc \notin {"idle", "done"}

\* caller c moves on to record r; if the step writes, the calls in flight of
\* the other callers are no longer undisturbed
Moved(c, r, writes) ==
    [q \in Callers |->
        IF q = c THEN r
        ELSE IF writes /\ InFlight(fc[q]) THEN [fc[q] EXCEPT !.quiet = FALSE]
        ELSE fc[q]]

syncFrame == <<unit, store, ttl, redis, lastGet, lastDelete, lastWrite, renewed,
               scenario, scanVars, rerunVars, timelineVars, pureVars>>

\* fetch(): await this.hasFollowing(); an empty set goes on to the reload
\* without looking at the marker
SyncCard(c) ==
    /\ unit = "sync"
    /\ fc[c].role = "sync"
    /\ fc[c].pc = "idle"
    /\ fc' = Moved(c, [fc[c] EXCEPT
                         !.pc = IF hasFollowing(rsets, SyncKey) THEN "exists" ELSE "del",
                         !.quiet = TRUE,
                         !.before = [set |-> getAll(rsets, SyncKey), mark |-> MarkOf(marks),
                                     source |-> source[SyncCache]]], FALSE)
    /\ UNCHANGED <<now, rsets, marks, source, syncFrame>>

\* fetch(): (await redisClient.exists(ttlKey)) === 0
SyncExists(c) ==
    /\ unit = "sync"
    /\ fc[c].pc = "exists"
    /\ fc' = Moved(c, [fc[c] EXCEPT
                         !.pc = IF RedisExists(marks, TtlKey(SyncKey)) = 0
                                THEN "del" ELSE "done",
                         !.after = [set |-> getAll(rsets, SyncKey),
                                    mark |-> MarkOf(marks)]], FALSE)
    /\ UNCHANGED <<now, rsets, marks, source, syncFrame>>

\* fetch(): await redisClient.del(this.key)
SyncDel(c) ==
    /\ unit = "sync"
    /\ fc[c].pc = "del"
    /\ rsets' = RedisDelSet(rsets, SyncKey)
    /\ fc' = Moved(c, [fc[c] EXCEPT !.pc = "fetcher"], TRUE)
    /\ UNCHANGED <<now, marks, source, syncFrame>>

\* fetch(): await this.fetcher(), the list the source of truth holds now
SyncFetcher(c) ==
    /\ unit = "sync"
    /\ fc[c].pc = "fetcher"
    /\ fc' = Moved(c, [fc[c] EXCEPT !.pc = "follow", !.ids = source[SyncCache],
                                    !.produced = @ + 1], FALSE)
    /\ UNCHANGED <<now, rsets, marks, source, syncFrame>>

\* fetch(): await this.follow(...ids)
SyncFollow(c) ==
    /\ unit = "sync"
    /\ fc[c].pc = "follow"
    /\ rsets' = FollowEffect(rsets, SyncKey, fc[c].ids)
    /\ fc' = Moved(c, [fc[c] EXCEPT !.pc = "mark"], TRUE)
    /\ UNCHANGED <<now, marks, source, syncFrame>>

\* fetch(): await redisClient.set(ttlKey, "yes", "EX", 60 * 30)
SyncMark(c) ==
    /\ unit = "sync"
    /\ fc[c].pc = "mark"
    /\ marks' = RedisSetMarker(marks, TtlKey(SyncKey), MarkerTtl, now)
    /\ fc' = Moved(c, [fc[c] EXCEPT !.pc = "done",
                                    !.after = [set |-> getAll(rsets, SyncKey),
                                               mark |-> MarkOf(marks')]], TRUE)
    /\ UNCHANGED <<now, rsets, source, syncFrame>>

\* the caller, its own init() returned, reads the set: getAll, hasFollowing,
\* isFollowing("a")
SyncRead(c) ==
    /\ unit = "sync"
    /\ fc[c].role = "sync"
    /\ fc[c].pc = "done"
    /\ fc' = Moved(c, [fc[c] EXCEPT
                         !.read = [done |-> TRUE, all |-> getAll(rsets, SyncKey),
                                   has |-> hasFollowing(rsets, SyncKey),
                                   isA |-> isFollowing(rsets, SyncKey, "a")]], FALSE)
    /\ UNCHANGED <<now, rsets, marks, source, syncFrame>>

\* a second passes; a marker whose time to live has run out is gone
SyncTick ==
    /\ unit = "sync"
    /\ now < MaxClock
    /\ now' = now + 1
    /\ marks' = PurgeMarks(marks, now + 1)
    /\ fc' = [q \in Callers |->
                 IF marks' # marks /\ InFlight(fc[q]) THEN [fc[q] EXCEPT !.quiet = FALSE]
                 ELSE fc[q]]
    /\ UNCHANGED <<rsets, source, syncFrame>>

\* what the cache holds when the requests arrive: any members, a marker or
\* none; the source of truth holds any list
InitSync ==
    /\ unit = "sync"
    /\ store = {}
    /\ now = 0
    /\ queryLimit = 1
    /\ kind = "home"
    /\ userId = "a"
    /\ ps = Descriptor(1, <<NoId, None>>, [noteId |-> "", channelId |-> "", userIds |-> <<>>])
    /\ ps0 = ps
    /\ maxPartitions = 1
    /\ ScanIdle
    /\ TimelineIdle
    /\ redis = EmptyDb
    /\ ttl = 1
    /\ lastGet = NoGet
    /\ lastDelete = NoDelete
    /\ lastWrite = EmptyDb
    /\ renewed = {}
    /\ PureIdle
    /\ scenario = [c \in Caches |-> NoScenario]
    /\ \E members \in SUBSET Ids :
          rsets = [k \in MemberKeys |-> IF k = SyncKey THEN members ELSE {}]
    /\ \E expiry \in {None} \cup (1 .. MarkerTtl) :
          marks = IF expiry = None THEN EmptyDb
                  ELSE RedisSetMarker(EmptyDb, TtlKey(SyncKey), expiry, 0)
    /\ \E list \in SUBSET Ids :
          source = [c \in Caches |-> IF c = SyncCache THEN list ELSE {}]
    /\ fc = [c \in Callers |-> NoSync]

NextSync ==
    \/ \E c \in Callers : SyncCard(c)
    \/ \E c \in Callers : SyncExists(c)
    \/ \E c \in Callers : SyncDel(c)
    \/ \E c \in Callers : SyncFetcher(c)
    \/ \E c \in Callers : SyncFollow(c)
    \/ \E c \in Callers : SyncMark(c)
    \/ \E c \in Callers : SyncRead(c)
    \/ SyncTick

SpecSync == InitSync /\ [][NextSync]_vars

(***************************************************************************)
(* A mutation next to a sync: caller 1 syncs, caller 2 follows or          *)
(* unfollows one id, first in the source of truth, then in the cache.      *)
(***************************************************************************)

\* the mutating caller: what it does and to which id
NoMutate(op, id) == [NoSync EXCEPT !.role = "mutate", !.op = op, !.target = {id}]

\* the mutation's write to the source of truth (a row of followings inserted
\* or deleted)
MutateSource(c) ==
    /\ unit = "sync"
    /\ fc[c].role = "mutate"
    /\ fc[c].pc = "idle"
    /\ source' = [source EXCEPT ![SyncCache] =
                     IF fc[c].op = "follow" THEN @ \cup fc[c].target
                     ELSE @ \ fc[c].target]
    /\ fc' = Moved(c, [fc[c] EXCEPT !.pc = "cache"], TRUE)
    /\ UNCHANGED <<now, rsets, marks, syncFrame>>

\* the mutation's matching cache call, follow(id) or unfollow(id)
MutateCache(c) ==
    /\ unit = "sync"
    /\ fc[c].role = "mutate"
    /\ fc[c].pc = "cache"
    /\ rsets' = IF fc[c].op = "follow"
                THEN FollowEffect(rsets, SyncKey, fc[c].target)
                ELSE UnfollowEffect(rsets, SyncKey, fc[c].target)
    /\ fc' = Moved(c, [fc[c] EXCEPT !.pc = "done"], TRUE)
    /\ UNCHANGED <<now, marks, source, syncFrame>>

\* the cache is cold (no members, no marker) or holds the source's list, with
\* a marker or with the marker expired; the mutation follows an id the owner
\* does not follow or unfollows one the owner follows
InitMutate ==
    /\ unit = "sync"
    /\ store = {}
    /\ now = 0
    /\ queryLimit = 1
    /\ kind = "home"
    /\ userId = "a"
    /\ ps = Descriptor(1, <<NoId, None>>, [noteId |-> "", channelId |-> "", userIds |-> <<>>])
    /\ ps0 = ps
    /\ maxPartitions = 1
    /\ ScanIdle
    /\ TimelineIdle
    /\ redis = EmptyDb
    /\ ttl = 1
    /\ lastGet = NoGet
    /\ lastDelete = NoDelete
    /\ lastWrite = EmptyDb
    /\ renewed = {}
    /\ PureIdle
    /\ scenario = [c \in Caches |-> NoScenario]
    /\ \E list \in SUBSET Ids, cold \in BOOLEAN, expiry \in {None} \cup (1 .. MarkerTtl) :
          /\ cold => expiry = None
          /\ source = [c \in Caches |-> IF c = SyncCache THEN list ELSE {}]
          /\ rsets = [k \in MemberKeys |-> IF k = SyncKey /\ ~cold THEN list ELSE {}]
          /\ marks = IF expiry = None THEN EmptyDb
                     ELSE RedisSetMarker(EmptyDb, TtlKey(SyncKey), expiry, 0)
          /\ \E op \in {"follow", "unfollow"}, id \in Ids :
                /\ op = "follow" => id \notin list
                /\ op = "unfollow" => id \in list
                /\ fc = [c \in Callers |-> IF c = 1 THEN NoSync ELSE NoMutate(op, id)]

NextMutate ==
    \/ \E c \in Callers : SyncCard(c)
    \/ \E c \in Callers : SyncExists(c)
    \/ \E c \in Callers : SyncDel(c)
    \/ \E c \in Callers : SyncFetcher(c)
    \/ \E c \in Callers : SyncFollow(c)
    \/ \E c \in Callers : SyncMark(c)
    \/ \E c \in Callers : MutateSource(c)
    \/ \E c \in Callers : MutateCache(c)
    \/ SyncTick

SpecMutate == InitMutate /\ [][NextMutate]_vars

(***************************************************************************)
(* The home-timeline request up to its first scans: the followings cache   *)
(* is set up, the eight lookups are handed to Promise.all, the loop scans. *)
(***************************************************************************)

\* the eight values the handler destructures from Promise.all
Lookups == {"followingChannelIds", "followingUserIds", "mutedUserIds", "mutedInstances",
            "mutedWords", "blockerIds", "blockingIds", "renoteMutedIds"}

\* variant: only one of the lookups is called before the handler awaits
StartFirst(ls) ==
    LET first == CHOOSE l \in Lookups : ls[l] = "idle"
    IN [ls EXCEPT ![first] = "pending"]

\* the array handed to Promise.all: its eight elements are evaluated one after
\* the other without an await in between, each call leaves a pending promise
StartAll(ls) == [l \in Lookups |-> "pending"]

\* Promise.all rejects as soon as one element has rejected and fulfils when
\* every element has fulfilled
AllState(ls) ==
    IF \E l \in Lookups : ls[l] = "rejected" THEN "rejected"
    ELSE IF \A l \in Lookups : ls[l] = "resolved" THEN "fulfilled"
    ELSE "pending"

\* the range scans one request issues in the model
MaxHomeScans == 2

fanFrame == <<unit, store, now, scanVars, rerunVars, foundPacked, redis, ttl, lastGet,
              lastDelete, lastWrite, renewed, memberVars, wm>>

\* const followingsCache = await LocalFollowingsCache.init(user.id): the sync
\* of the followings cache, which may fail, comes before everything else
FollowingsInit ==
    /\ unit = "fanin"
    /\ tpc = "idle"
    /\ \E ok \in BOOLEAN :
          /\ tpc' = IF ok THEN "start" ELSE "threw"
          /\ response' = IF ok THEN response ELSE Thrown
    /\ UNCHANGED <<fc, chain, fanFrame>>

\* await Promise.all([...]): the eight lookups are started
StartLookups ==
    /\ unit = "fanin"
    /\ tpc = "start"
    /\ fc' = StartAll(fc)
    /\ tpc' = "await"
    /\ UNCHANGED <<response, chain, fanFrame>>

\* a lookup settles, with its value or with an error of the cache or the
\* database; the others go on whatever the handler does
LookupSettles(l) ==
    /\ unit = "fanin"
    /\ fc[l] = "pending"
    /\ \E ok \in BOOLEAN : fc' = [fc EXCEPT ![l] = IF ok THEN "resolved" ELSE "rejected"]
    /\ UNCHANGED <<tpc, response, chain, fanFrame>>

\* the await of Promise.all returns with the eight values
AllFulfilled ==
    /\ unit = "fanin"
    /\ tpc = "await"
    /\ AllState(fc) = "fulfilled"
    /\ tpc' = "loop"
    /\ UNCHANGED <<fc, response, chain, fanFrame>>

\* the await of Promise.all throws: the handler is left, the request fails
AllRejected ==
    /\ unit = "fanin"
    /\ tpc = "await"
    /\ AllState(fc) = "rejected"
    /\ tpc' = "threw"
    /\ response' = Thrown
    /\ UNCHANGED <<fc, chain, fanFrame>>

\* while (foundPacked.length < ps.limit): execPaginationQuery issues a range
\* scan and runs the filter closure on its batch; the loop goes on or ends
LoopScan ==
    /\ unit = "fanin"
    /\ tpc = "loop"
    /\ chain.scanned < MaxHomeScans
    /\ \E more \in BOOLEAN :
          /\ tpc' = IF more /\ chain.scanned + 1 < MaxHomeScans THEN "loop" ELSE "done"
          /\ response' = IF tpc' = "done" THEN Resolved(<<>>) ELSE response
    /\ chain' = [chain EXCEPT !.scanned = @ + 1, !.pc = "scan"]
    /\ UNCHANGED <<fc, fanFrame>>

InitFanIn ==
    /\ unit = "fanin"
    /\ store = {}
    /\ now = 0
    /\ queryLimit = 1
    /\ kind = "home"
    /\ userId = "a"
    /\ ps = Descriptor(1, <<NoId, None>>, [noteId |-> "", channelId |-> "", userIds |-> <<>>])
    /\ ps0 = ps
    /\ maxPartitions = 1
    /\ ScanIdle
    /\ TimelineIdle
    /\ MemberIdle
    /\ redis = EmptyDb
    /\ ttl = 1
    /\ lastGet = NoGet
    /\ lastDelete = NoDelete
    /\ lastWrite = EmptyDb
    /\ renewed = {}
    /\ PureIdle
    /\ fc = [l \in Lookups |-> "idle"]

NextFanIn ==
    \/ FollowingsInit
    \/ StartLookups
    \/ \E l \in Lookups : LookupSettles(l)
    \/ AllFulfilled
    \/ AllRejected
    \/ LoopScan

SpecFanIn == InitFanIn /\ [][NextFanIn]_vars

(***************************************************************************)
(* The sign-in handler of api/private/signin.ts.  store holds the rows of  *)
(* AttestationChallenges, found the rows appended to Signins, source the   *)
(* account the user name stands for, fc the attempts; time is in minutes.  *)
(***************************************************************************)

\* 5 * 60 * 1000 ms
ChallengeMaxAge == 5

Malformed == "<malformed>"

\* the account: the row of Users (none, or suspended) and its profile
Accounts ==
    [exists : BOOLEAN, isSuspended : BOOLEAN, twoFactorEnabled : BOOLEAN,
     usePasswordLessLogin : BOOLEAN, keys : BOOLEAN]

\* a login challenge of the user and a registration challenge of the user
LoginChallenge(createdAt) ==
    [id |-> "c1", userId |-> "u", registrationChallenge |-> FALSE, challenge |-> "k1",
     createdAt |-> createdAt]

RegistrationChallenge ==
    [id |-> "c2", userId |-> "u", registrationChallenge |-> TRUE, challenge |-> "k1",
     createdAt |-> 0]

\* when the login challenge was created, the requests arriving at minute 0
ChallengeTimes == {0 - ChallengeMaxAge, 1 - ChallengeMaxAge, -2, 0}

\* an attempt: the request body (same is what bcrypt.compare will give, token
\* "" is no token, cred says that credentialId is given, clientData is the
\* challenge in clientDataJSON, keyKnown whether the credential id names a
\* stored key, sigValid what verifyLogin will give), where the handler is,
\* the challenge row it read and what it answered
NoAttempt ==
    [pc |-> "off", same |-> FALSE, token |-> "", cred |-> FALSE, challengeId |-> "c1",
     clientData |-> "k1", keyKnown |-> FALSE, sigValid |-> FALSE,
     row |-> None, deleted |-> FALSE, checkedAt |-> None, result |-> "pending",
     failed |-> 0]

PasswordOnly == {[NoAttempt EXCEPT !.pc = "user", !.same = s] : s \in BOOLEAN}

WithToken ==
    {[NoAttempt EXCEPT !.pc = "user", !.same = s, !.token = t, !.cred = c] :
        s \in BOOLEAN, t \in {"good", "bad"}, c \in BOOLEAN}

WithCredential ==
    {[NoAttempt EXCEPT !.pc = "user", !.same = s, !.cred = TRUE, !.challengeId = i,
                       !.clientData = d, !.keyKnown = k, !.sigValid = v] :
        s \in BOOLEAN, i \in {"c1", "c2"}, d \in {"k1", "kX", Malformed},
        k \in BOOLEAN, v \in BOOLEAN}

Attempts == PasswordOnly \cup WithToken \cup WithCredential

\* variant: the password is not looked at on the security-key paths
PasswordGateOpen(same, profile) == TRUE

\* !(!same && !profile.usePasswordLessLogin)
PasswordGate(same, profile) == same \/ profile.usePasswordLessLogin

\* where the handler goes once the password has been compared
AfterPassword(r, profile) ==
    IF ~profile.twoFactorEnabled THEN (IF r.same THEN "session" ELSE "fail")
    ELSE IF r.token # ""
    THEN (IF ~r.same THEN "fail" ELSE IF r.token = "good" THEN "session" ELSE "fail")
    ELSE IF r.cred
    THEN (IF ~PasswordGate(r.same, profile) THEN "fail"
          ELSE IF r.clientData = Malformed THEN "threw"
          ELSE "challenge")
    ELSE IF ~PasswordGate(r.same, profile) THEN "fail"
    ELSE IF ~profile.keys THEN "fail"
    ELSE "issue"

\* AttestationChallenges.findOneBy({ userId, id, registrationChallenge: false,
\* challenge })
FindChallenge(rows, uid, id, challenge) ==
    {c \in rows : /\ c.userId = uid
                  /\ c.id = id
                  /\ ~c.registrationChallenge
                  /\ c.challenge = challenge}

\* AttestationChallenges.delete({ userId, id })
DeleteChallenge(rows, uid, id) == {c \in rows : ~(c.userId = uid /\ c.id = id)}

\* variant: a challenge of any age is taken
ChallengeFreshAlways(createdAt, clock) == TRUE

\* !(new Date().getTime() - challenge.createdAt.getTime() >= 5 * 60 * 1000)
ChallengeFresh(createdAt, clock) == ~(clock - createdAt >= ChallengeMaxAge)

\* the handler has answered: a session, or an error
Ended(r, answer) == [r EXCEPT !.pc = "done", !.result = answer]

signFrame == <<unit, queryLimit, kind, ps, ps0, userId, maxPartitions, pc, result,
               untilDate, sinceDate, scannedPartitions, foundLimit, scans, exhausted,
               rerunVars, timelineVars, redis, ttl, lastGet, lastDelete, lastWrite,
               renewed, rsets, marks, source, scenario, pureVars>>

\* Users.findOneBy: no such user, a suspended user, or on to the password
SigninUser(a) ==
    /\ unit = "signin"
    /\ fc[a].pc = "user"
    /\ fc' = [fc EXCEPT ![a] =
                 IF ~source.exists THEN Ended(@, "NO_SUCH_USER")
                 ELSE IF source.isSuspended THEN Ended(@, "SUSPENDED")
                 ELSE [@ EXCEPT !.pc = "password"]]
    /\ UNCHANGED <<store, found, now, signFrame>>

\* the profile is read, the password compared; without two-factor, or with a
\* token, the answer is known here
SigninPassword(a) ==
    /\ unit = "signin"
    /\ fc[a].pc = "password"
    /\ LET to == AfterPassword(fc[a], source)
       IN fc' = [fc EXCEPT ![a] =
                    IF to = "session" THEN Ended(@, "session")
                    ELSE IF to = "threw" THEN Ended(@, "threw")
                    ELSE [@ EXCEPT !.pc = to]]
    /\ UNCHANGED <<store, found, now, signFrame>>

\* the challenge the assertion names is looked up
SigninFindChallenge(a) ==
    /\ unit = "signin"
    /\ fc[a].pc = "challenge"
    /\ LET rows == FindChallenge(store, "u", fc[a].challengeId, fc[a].clientData)
       IN fc' = [fc EXCEPT ![a] =
                    IF rows = {} THEN [@ EXCEPT !.pc = "fail"]
                    ELSE [@ EXCEPT !.pc = "delete",
                                   !.row = (CHOOSE c \in rows : TRUE).createdAt]]
    /\ UNCHANGED <<store, found, now, signFrame>>

\* the challenge is deleted
SigninDeleteChallenge(a) ==
    /\ unit = "signin"
    /\ fc[a].pc = "delete"
    /\ store' = DeleteChallenge(store, "u", fc[a].challengeId)
    /\ fc' = [fc EXCEPT ![a] = [@ EXCEPT !.pc = "verify", !.deleted = TRUE]]
    /\ UNCHANGED <<found, now, signFrame>>

\* the age of the challenge, the key of the credential id and the signature
\* are checked
SigninVerify(a) ==
    /\ unit = "signin"
    /\ fc[a].pc = "verify"
    /\ fc' = [fc EXCEPT ![a] =
                 IF ~ChallengeFresh(fc[a].row, now) THEN [@ EXCEPT !.pc = "fail", !.checkedAt = now]
                 ELSE IF ~fc[a].keyKnown THEN [@ EXCEPT !.pc = "fail", !.checkedAt = now]
                 ELSE IF fc[a].sigValid
                 THEN [Ended(@, "session") EXCEPT !.checkedAt = now]
                 ELSE [@ EXCEPT !.pc = "fail", !.checkedAt = now]]
    /\ UNCHANGED <<store, found, now, signFrame>>

\* fail(): a row of Signins with success false, then ACCESS_DENIED
SigninFail(a) ==
    /\ unit = "signin"
    /\ fc[a].pc = "fail"
    /\ found' = Append(found, [userId |-> "u", success |-> FALSE, attempt |-> a])
    /\ fc' = [fc EXCEPT ![a] = [Ended(@, "ACCESS_DENIED") EXCEPT !.failed = @ + 1]]
    /\ UNCHANGED <<store, now, signFrame>>

\* no token and no credential: a new challenge is stored and sent
SigninIssue(a) ==
    /\ unit = "signin"
    /\ fc[a].pc = "issue"
    /\ store' = store \cup {[id |-> IF a = 1 THEN "n1" ELSE "n2", userId |-> "u",
                             registrationChallenge |-> FALSE, challenge |-> "k2",
                             createdAt |-> now]}
    /\ fc' = [fc EXCEPT ![a] = Ended(@, "challenge")]
    /\ UNCHANGED <<found, now, signFrame>>

\* a minute passes
SigninTick ==
    /\ unit = "signin"
    /\ now < MaxClock
    /\ \E a \in Callers : fc[a].pc \notin {"off", "done"}
    /\ now' = now + 1
    /\ UNCHANGED <<store, found, fc, signFrame>>

SigninIdle ==
    /\ unit = "signin"
    /\ now = 0
    /\ queryLimit = 1
    /\ kind = "home"
    /\ userId = "a"
    /\ ps = Descriptor(1, <<NoId, None>>, [noteId |-> "", channelId |-> "", userIds |-> <<>>])
    /\ ps0 = ps
    /\ maxPartitions = 1
    /\ ScanIdle
    /\ TimelineIdle
    /\ rsets = [k \in MemberKeys |-> {}]
    /\ marks = EmptyDb
    /\ scenario = [c \in Caches |-> NoScenario]
    /\ redis = EmptyDb
    /\ ttl = 1
    /\ lastGet = NoGet
    /\ lastDelete = NoDelete
    /\ lastWrite = EmptyDb
    /\ renewed = {}
    /\ PureIdle

\* one request: any account, any body, the login challenge stored or not
InitSignin ==
    /\ SigninIdle
    /\ source \in Accounts
    /\ \E t \in ChallengeTimes, present \in BOOLEAN :
          store = IF present THEN {LoginChallenge(t), RegistrationChallenge}
                  ELSE {RegistrationChallenge}
    /\ \E r \in Attempts : fc = [a \in Callers |-> IF a = 1 THEN r ELSE NoAttempt]

NextSignin ==
    \/ \E a \in Callers : SigninUser(a)
    \/ \E a \in Callers : SigninPassword(a)
    \/ \E a \in Callers : SigninFindChallenge(a)
    \/ \E a \in Callers : SigninDeleteChallenge(a)
    \/ \E a \in Callers : SigninVerify(a)
    \/ \E a \in Callers : SigninFail(a)
    \/ \E a \in Callers : SigninIssue(a)
    \/ SigninTick

SpecSignin == InitSignin /\ [][NextSignin]_vars

\* two requests to a two-factor account: each presents the stored login
\* challenge, with its own password and signature, or asks for a challenge
InitReplay ==
    /\ SigninIdle
    /\ \E pwless \in BOOLEAN :
          source = [exists |-> TRUE, isSuspended |-> FALSE, twoFactorEnabled |-> TRUE,
                    usePasswordLessLogin |-> pwless, keys |-> TRUE]
    /\ \E t \in ChallengeTimes : store = {LoginChallenge(t), RegistrationChallenge}
    /\ fc \in [Callers -> PasswordOnly \cup
                            {r \in WithCredential : r.challengeId = "c1" /\ r.clientData = "k1"
                                                       /\ r.keyKnown}]

SpecReplay == InitReplay /\ [][NextSignin]_vars

----------------------------------------------------------------------------
(* Properties *)

\* C1: the home-timeline endpoint returns at most ps.limit rows, whatever the
\* store and the filter hold, also when the scanner handed back more
C1_AtMostLimit == tpc = "returned" => Len(response[2]) <= ps0.limit

\* the scanner handed back more than limit rows, more than limit were packed
C1_Witness ==
    /\ tpc = "returned"
    /\ Len(found) > ps0.limit
    /\ Len(foundPacked) > ps0.limit
    /\ Len(response[2]) = ps0.limit

ShortScans == {i \in 1 .. Len(scans) : scans[i].rows # None /\ scans[i].rows < scans[i].limit}

\* C2: scannedPartitions never exceeds maxPartitions, at most maxPartitions
\* scans end a partition, every range scan is issued with the budget and the
\* target count not yet reached, and the number of scans is bounded by the
\* budget plus the rows of the store (the loop terminates)
C2_ScanBudget ==
    /\ scannedPartitions <= maxPartitions
    /\ Cardinality(ShortScans) <= maxPartitions
    /\ \A i \in 1 .. Len(scans) :
          scans[i].scanned < maxPartitions /\ scans[i].had < scans[i].target
    /\ Len(scans) <= maxPartitions + Cardinality(store)

\* the budget ran out below the target count, after a full batch as well
C2_Witness ==
    /\ pc = "done"
    /\ scannedPartitions = maxPartitions
    /\ Len(found) < foundLimit
    /\ Len(scans) > maxPartitions

\* the request's resolved upper bound, from the descriptor as issued
C3_Until0 ==
    IF ps0.untilId # NoId THEN ps0.untilId[1] ELSE now

\* no sinceDate, the maxPartitions most recent partitions hold no row and an
\* older one holds a row the filter keeps
C3_Scenario ==
    /\ ps0.sinceId = NoId /\ ps0.sinceDate = None
    /\ (kind \in {"home", "user", "notification", "reaction"} => userId # "")
    /\ (kind = "renotes" => ps0.noteId # "")
    /\ (kind = "channel" => ps0.channelId # "")
    /\ (kind = "list" => ps0.userIds # <<>>)
    /\ \A r \in store : DayOf(r.createdAt) <= DayOf(C3_Until0) - maxPartitions
    /\ \E r \in store : r.pass /\ (r.key = "a" \/ kind = "list")

C3_ShortPage ==
    /\ pc # "error"
    /\ pc = "done" =>
          /\ result = Returned(<<>>)
          /\ scannedPartitions = maxPartitions
          /\ Len(scans) = maxPartitions
          /\ \A i \in 1 .. Len(scans) :
                DayOf(scans[i].until) > DayOf(C3_Until0) - maxPartitions

C4_NoDuplicateNoRescan ==
    /\ \A i, j \in 1 .. Len(found) : i # j => found[i] # found[j]
    /\ \A i \in 1 .. Len(scans) : \A d \in scans[i].done : DayOf(scans[i].until) < d

\* rows were appended by two scans, the second after a partition was exhausted
C4_Witness ==
    /\ Len(found) >= 2
    /\ Len(scans) >= 2
    /\ scans[1].rows > 0
    /\ scans[2].rows > 0
    /\ scans[2].done # {}

\* C5: the rows the scanner returns are in non-increasing order of creation
\* time, for every feed kind
C5_Descending ==
    \A i \in 1 .. Len(found) - 1 : found[i].createdAt >= found[i + 1].createdAt

\* a list request with two targets returned rows of both
C5_Witness ==
    /\ kind = "list"
    /\ pc = "done"
    /\ \E i, j \in 1 .. Len(found) : found[i].key = "a" /\ found[j].key = "b"

\* C6: the identical request with the same untilId, issued again later against
\* the unchanged store, returns the identical sequence
C6_Idempotent ==
    (run = 2 /\ pc = "done" /\ ps0.untilId # NoId) => result = firstResult

\* the second run finished after the clock had moved on, with rows
C6_Witness ==
    /\ run = 2
    /\ pc = "done"
    /\ ps0.untilId # NoId
    /\ now > EndOfTime
    /\ Len(result[2]) > 0

\* the request lacks the scoping id its feed kind needs
C7_ScopeIdMissing ==
    \/ kind \in {"home", "user", "notification", "reaction"} /\ userId = ""
    \/ kind = "renotes" /\ ps0.noteId = ""
    \/ kind = "channel" /\ ps0.channelId = ""
    \/ kind = "list" /\ ps0.userIds = <<>>

\* C7: a feed kind invoked without its scoping id throws at once: no range
\* scan is issued and the call takes no further step
C7_MissingScopeThrows ==
    C7_ScopeIdMissing =>
        /\ pc \in {"call", "error"}
        /\ scans = <<>>
        /\ pc = "error" => (result = Thrown /\ ~ENABLED NextScan)

C7_Witness == pc = "error" /\ kind = "channel" /\ store # {} /\ result = Thrown

\* C8: a rejected range scan ends the call of the scanner with the exception,
\* it is the last scan of the call and no rows are returned; a rejected cache
\* read, fetcher or write ends fetch / fetchMaybe with the exception, and after
\* a rejected read the fetcher is not invoked and nothing is written
C8_FailureSurfaced ==
    /\ \A i \in 1 .. Len(scans) :
          scans[i].rows = None => (i = Len(scans) /\ pc = "failed")
    /\ pc = "failed" => result = Thrown
    /\ fc.failedAt # "" => (fc.pc = "failed" /\ fc.result = Thrown)
    /\ fc.failedAt = "read" => (fc.produced = 0 /\ ~fc.wrote)
    /\ fc.failedAt = "fetcher" => ~fc.wrote
    /\ fc.pc = "done" => fc.result # Thrown

\* the read of a key the cache does not hold was rejected, another key is held
C8_Witness ==
    /\ fc.pc = "failed"
    /\ fc.failedAt = "read"
    /\ prefixedKey(fc.key) \notin DOMAIN redis
    /\ DOMAIN redis # {}

\* C9: a get within the TTL of the latest set of its key returns the value of
\* that set (so an immediate get returns it, and a later set replaces the value
\* and restarts the TTL); a get once the TTL has elapsed since the latest set,
\* with no renewal in between, returns absent
C9_SetThenGet ==
    lastGet.done =>
        LET key == prefixedKey(lastGet.key)
        IN IF key \in DOMAIN lastWrite
           THEN /\ now < lastWrite[key].at + ttl => lastGet.out = lastWrite[key].value
                /\ (now >= lastWrite[key].at + ttl /\ key \notin renewed)
                       => lastGet.out = Undefined
           ELSE lastGet.out = Undefined

\* a live entry was overwritten, and the get exactly one TTL after the later
\* set finds the key absent
C9_Witness ==
    /\ lastGet.done
    /\ prefixedKey(lastGet.key) \in DOMAIN lastWrite
    /\ lastWrite[prefixedKey(lastGet.key)].over
    /\ now = lastWrite[prefixedKey(lastGet.key)].at + ttl
    /\ prefixedKey(lastGet.key) \notin renewed
    /\ lastGet.out = Undefined

\* C10: a get with renew = true that finds the key sets its expiry to the full
\* TTL from now and changes nothing else; a get with renew = false, or one that
\* finds the key absent, leaves the keyspace as it was
C10_RenewFrame ==
    lastGet.done =>
        LET key == prefixedKey(lastGet.key)
            before == lastGet.before
        IN IF lastGet.renew /\ key \in DOMAIN before
           THEN /\ DOMAIN redis = DOMAIN before
                /\ redis[key] = [value |-> before[key].value, expires |-> now + ttl]
                /\ \A k \in DOMAIN before \ {key} : redis[k] = before[k]
                /\ lastGet.out = before[key].value[2]
           ELSE redis = before

\* a renewing get found its key with less than the full TTL left, next to
\* another entry
C10_Witness ==
    /\ lastGet.done
    /\ lastGet.renew
    /\ prefixedKey(lastGet.key) \in DOMAIN lastGet.before
    /\ lastGet.before[prefixedKey(lastGet.key)].expires < now + ttl
    /\ Cardinality(DOMAIN lastGet.before) = 2

\* the cached value of the call counts: found, and not rejected by a validator
C11_Usable ==
    fc.cached # Undefined /\ (fc.validator.given => fc.cached \in fc.validator.accepts)

\* C11: a call of fetch / fetchMaybe that returns gives the cached value and
\* invokes no fetcher when the key is held and no validator rejects the value;
\* otherwise it invokes the fetcher, returns what it produced, has written it
\* exactly if it is not undefined, and a get of the key then gives that value
C11_FetchOrPopulate ==
    fc.pc = "done" =>
        IF C11_Usable
        THEN fc.result = Resolved(fc.cached) /\ fc.produced = 0 /\ ~fc.wrote
        ELSE /\ fc.produced = 1
             /\ fc.result = Resolved(fc.value)
             /\ fc.wrote <=> fc.value # Undefined
             /\ fc.wrote => GetValue(redis, prefixedKey(fc.key)) = fc.value

\* the validator rejected the cached value and the fetcher's value replaced it
C11_Witness ==
    /\ fc.pc = "done"
    /\ fc.cached # Undefined
    /\ fc.validator.given
    /\ fc.cached \notin fc.validator.accepts
    /\ fc.wrote
    /\ fc.value # fc.cached
    /\ GetValue(redis, prefixedKey(fc.key)) = fc.value

\* C12: a call of fetch / fetchMaybe invokes its fetcher at most once, and not
\* at all when the key is held and no validator rejects the cached value
C12_ProducerAtMostOnce ==
    /\ fc.produced <= 1
    /\ (fc.failedAt # "read" /\ fc.pc # "idle" /\ C11_Usable) => fc.produced = 0

\* a fetchMaybe whose fetcher ran once and produced undefined
C12_Witness ==
    /\ fc.pc = "done"
    /\ fc.maybe
    /\ fc.produced = 1
    /\ fc.value = Undefined
    /\ DOMAIN redis # {}

\* C13: a delete that returns leaves every listed key absent; a delete of
\* absent keys, or of no keys, completes without error; whatever it does, the
\* entries of the keys not listed are unchanged
C13_Delete ==
    lastDelete.done =>
        LET listed == {prefixedKey(lastDelete.keys[i]) : i \in 1 .. Len(lastDelete.keys)}
        IN /\ lastDelete.out # Thrown =>
                 \A k \in listed : GetValue(redis, k) = Undefined
           /\ listed \cap DOMAIN lastDelete.before = {} =>
                 (lastDelete.out # Thrown /\ redis = lastDelete.before)
           /\ \A k \in DOMAIN lastDelete.before \ listed :
                 k \in DOMAIN redis /\ redis[k] = lastDelete.before[k]

\* C14: after a sync against an empty source list, run on a cache whose member
\* set is empty or whose marker is absent, getAll is empty and isFollowing is
\* false for every id; after a follow(ids) on that cache, isFollowing holds of
\* each of the ids and getAll is exactly the ids
C14_SyncEmptyThenAdd ==
    \A c \in Caches :
        LET key == SetKey(c[1], c[2])
        IN /\ scenario[c].phase = "synced" =>
                 /\ getAll(rsets, key) = {}
                 /\ \A x \in Ids : ~isFollowing(rsets, key, x)
           /\ scenario[c].phase = "added" =>
                 /\ \A x \in scenario[c].ids : isFollowing(rsets, key, x)
                 /\ getAll(rsets, key) = scenario[c].ids

\* the sync cleared stale members, then two ids were added; another owner's
\* cache holds members of its own
C14_Witness ==
    /\ scenario[<<"follow", "o1">>] = [phase |-> "added", ids |-> {"a", "b"}, stale |-> TRUE]
    /\ rsets[SetKey("follow", "o2")] = {"a"}

\* C15: a fetch, follow or unfollow on one cache leaves the member set and the
\* marker of every other (name, owner) as they were
C15_OwnerScoped ==
    [][\A c \in Caches :
          (\/ SetCacheFetch(c)
           \/ \E ids \in SUBSET Ids : SetCacheFollow(c, ids) \/ SetCacheUnfollow(c, ids))
          => \A d \in Caches \ {c} :
                LET key == SetKey(d[1], d[2])
                IN /\ rsets'[key] = rsets[key]
                   /\ (TtlKey(key) \in DOMAIN marks') = (TtlKey(key) \in DOMAIN marks)
                   /\ TtlKey(key) \in DOMAIN marks => marks'[TtlKey(key)] = marks[TtlKey(key)]
      ]_vars

\* three caches in three different states: synced with a member, edited but
\* never synced, synced and empty
C15_Witness ==
    /\ rsets[SetKey("follow", "o1")] = {"a"}
    /\ TtlKey(SetKey("follow", "o1")) \in DOMAIN marks
    /\ rsets[SetKey("follow", "o2")] = {"b"}
    /\ TtlKey(SetKey("follow", "o2")) \notin DOMAIN marks
    /\ rsets[SetKey("channel", "o1")] = {}
    /\ TtlKey(SetKey("channel", "o1")) \in DOMAIN marks

\* the meaning of one configured pattern on a text: every keyword of a list
\* that has keywords is in the text, whatever the case; the regular expression
\* of a /body/flags string finds a match
C19_PatternMatches(text, p) ==
    IF p.array
    THEN LET ks == {p.items[i] : i \in 1 .. Len(p.items)} \ {<<>>}
         IN ks # {} /\ \A k \in ks : includes(toLowerCase(text), toLowerCase(k))
    ELSE LET f == MatchRegexForm(p.str)
         IN f.matched /\ Compiles(f.body) /\ RegexTest(f.body, f.flags, text)

C19_SomePatternMatches ==
    \E i \in 1 .. Len(wm.mutedWords) : C19_PatternMatches(NoteText(wm.note), wm.mutedWords[i])

C19_Examples ==
    /\ (/\ wm.note = [cw |-> NullStr, text |-> Str_foo \o <<" ">> \o Str_only]
        /\ wm.mutedWords = <<ListPattern(<<Str_foo, Str_bar>>)>>) => wm.out = Resolved(FALSE)
    /\ (/\ wm.note = [cw |-> NullStr, text |-> Str_FOO \o <<" ">> \o Str_bar]
        /\ wm.mutedWords = <<StringPattern(<<"/">> \o Str_foo \o <<"/", "i">>)>>)
          => wm.out = Resolved(TRUE)

\* C19 as stated: the text is muted iff at least one configured pattern matches
C19_MutedIffSomePattern ==
    (wm.pc = "done" /\ wm.note # NullNote) =>
        /\ wm.out = Resolved(C19_SomePatternMatches)
        /\ C19_Examples

\* C19: a text that is not empty once trimmed is muted iff at least one
\* configured pattern matches it (a keyword list when each of its keywords is in
\* the text whatever the case, a /body/flags string by the test of its regular
\* expression); an empty text is never muted; ["foo","bar"] does not mute
\* "foo only" and /foo/i mutes "FOO bar"
C19_WordMuteMatching ==
    (wm.pc = "done" /\ wm.note # NullNote) =>
        /\ wm.out = Resolved(NoteText(wm.note) # <<>> /\ C19_SomePatternMatches)
        /\ C19_Examples

\* a keyword list that lacks a keyword, then an expression that matches
C19_Witness ==
    /\ wm.pc = "done"
    /\ wm.note = [cw |-> NullStr, text |-> Str_foo \o <<" ">> \o Str_only]
    /\ wm.mutedWords = <<ListPattern(<<Str_foo, Str_bar>>),
                         StringPattern(<<"/">> \o Str_foo \o <<"/", "i">>)>>
    /\ wm.out = Resolved(TRUE)

C20_Malformed(p) ==
    /\ ~p.array
    /\ LET f == MatchRegexForm(p.str) IN ~f.matched \/ ~Compiles(f.body)

RECURSIVE C20_WellFormedOnly(_)
C20_WellFormedOnly(words) ==
    IF Len(words) = 0 THEN <<>>
    ELSE IF C20_Malformed(words[1]) THEN C20_WellFormedOnly(Tail(words))
         ELSE <<words[1]>> \o C20_WellFormedOnly(Tail(words))

\* C20: the check never throws, and gives what it gives on the list without
\* its malformed patterns (strings not of the form /body/flags, expressions
\* that do not compile)
C20_MalformedSkipped ==
    wm.pc = "done" =>
        /\ wm.out \in {Resolved(TRUE), Resolved(FALSE)}
        /\ wm.out = checkWordMute(wm.note, C20_WellFormedOnly(wm.mutedWords))

\* an expression that does not compile comes before one that matches
C20_Witness ==
    /\ wm.pc = "done"
    /\ wm.note = [cw |-> NullStr, text |-> Str_FOO \o <<" ">> \o Str_bar]
    /\ wm.mutedWords = <<StringPattern(<<"/", "(", "/">>),
                         StringPattern(<<"/">> \o Str_foo \o <<"/", "i">>)>>
    /\ wm.out = Resolved(TRUE)

\* what the claim allows of the row note for the viewer me: a public or home
\* row passes, a followers row passes only for its author, a follower of its
\* author, its reply target or somebody mentioned, a specified row passes only
\* for its author or a listed recipient
C16_Allowed(note, me, kept) ==
    /\ note.visibility \in {"public", "home"} => kept
    /\ (note.visibility = "followers" /\ kept) =>
           \/ note.userId = me
           \/ note.userId \in chain.ctx.followingUserIds
           \/ note.replyUserId = me
           \/ me \in note.mentions
    /\ (note.visibility = "specified" /\ kept) =>
           \/ note.userId = me
           \/ me \in note.visibleUserIds

\* C16: for an authenticated viewer the visibility step, and isVisibleForMe,
\* let rows pass as the claim allows
C16_VisibilityStep ==
    (chain.pc = "done" /\ chain.user # NullUser) =>
        \A i \in 1 .. Len(chain.notes) :
            /\ C16_Allowed(chain.notes[i], IdOf(chain.user),
                           \E j \in 1 .. Len(chain.out[2]) : chain.out[2][j] = chain.notes[i])
            /\ C16_Allowed(chain.notes[i], IdOf(chain.user), i \in chain.visible)

\* C18: whatever the batch and the predicate sets, the visibility, mute,
\* block and renote-mute steps give the same outcome in every order: the same
\* surviving rows, or a TypeError in every order
C18_OrderIndependent ==
    chain.pc = "done" =>
        \A o \in Orders :
            /\ chain.byOrder[o].threw = chain.out[2].threw
            /\ {chain.byOrder[o].rows[i] : i \in 1 .. Len(chain.byOrder[o].rows)}
                  = {chain.out[2].rows[i] : i \in 1 .. Len(chain.out[2].rows)}

\* a row survives the four steps and another is dropped, with every predicate
\* set in use but the muted words
C18_Witness ==
    /\ chain.pc = "done"
    /\ chain.ctx = [NoContext EXCEPT !.followingUserIds = {"A"}, !.mutedUserIds = {"B"},
                                     !.blockIds = {"B"}, !.renoteMutedIds = {"A"}]
    /\ Len(chain.notes) = 2
    /\ ~chain.out[2].threw
    /\ Len(chain.out[2].rows) = 1

\* C17: V follows only A and the feed holds a public note of A and one of B
\* of today and a followers-only note of A of the day before; the request with
\* limit 10 returns exactly the two notes of A
C17_HomeScenario ==
    (/\ chain.pc = "done"
     /\ chain.ctx.followingUserIds = {"A"}
     /\ chain.notes = SelectSeq(HomeFeed, LAMBDA n : n.id \in {"a1", "b1", "a2"}))
        => chain.out = Resolved(SelectSeq(HomeFeed, LAMBDA n : n.id \in {"a1", "a2"}))

\* the upper bound the descriptor's id or, without one, the clock gives
C21_IdBound == IF ps0.untilId # NoId THEN getTimestamp(ps0.untilId) ELSE now

\* C21: the resolved untilDate is the until id's timestamp or, without an id,
\* the current time; an explicit until timestamp that is earlier replaces it;
\* the resolved untilDate is never later than a bound the caller supplied
C21_UntilResolution ==
    (unit = "prepare" /\ chain.pc # "call") =>
        /\ chain.out.untilDate =
              IF ps0.untilDate # None /\ ps0.untilDate < C21_IdBound
              THEN ps0.untilDate ELSE C21_IdBound
        /\ ps0.untilId # NoId => chain.out.untilDate <= getTimestamp(ps0.untilId)
        /\ ps0.untilDate # None => chain.out.untilDate <= ps0.untilDate

C22_Parts == {chain.out.query[i] : i \in 1 .. Len(chain.out.query)}
C22_Passed == {i \in 1 .. Len(chain.out.params) : chain.out.params[i].of = "sinceDate"}

\* C22: the resolved sinceDate is the later of the since id's timestamp and
\* the explicit since timestamp when both are given, the one that is given
\* when only one is, absent when neither is; the lower-bound predicate is in
\* the query, and sinceDate among the parameters, exactly when a sinceDate was
\* resolved; the upper-bound predicate and the row limit are always there
C22_SinceResolution ==
    (unit = "prepare" /\ chain.pc # "call") =>
        /\ chain.out.sinceDate =
              CASE ps0.sinceId # NoId /\ ps0.sinceDate # None ->
                      IF ps0.sinceDate > getTimestamp(ps0.sinceId)
                      THEN ps0.sinceDate ELSE getTimestamp(ps0.sinceId)
                [] ps0.sinceId # NoId /\ ps0.sinceDate = None -> getTimestamp(ps0.sinceId)
                [] ps0.sinceId = NoId -> ps0.sinceDate
        /\ LowerBound \in C22_Parts <=> chain.out.sinceDate # None
        /\ UpperBound \in C22_Parts
        /\ RowLimit \in C22_Parts
        /\ chain.pc = "bound" =>
              /\ C22_Passed # {} <=> chain.out.sinceDate # None
              /\ \A i \in C22_Passed : chain.out.params[i].value = chain.out.sinceDate

\* the step is an iteration of the loop whose range scan returned
C23_Scanned == Len(scans') = Len(scans) + 1 /\ Last(scans').rows # None

\* C23: within a request the cursor untilDate never increases; it strictly
\* decreases in every iteration that returns a row and in every iteration
\* that exhausts a partition; only the resolution at entry and the loop's
\* iterations change it
C23_CursorDecreases ==
    [][/\ pc # "call" => untilDate' <= untilDate
       /\ (C23_Scanned /\ Last(scans').rows > 0) => untilDate' < untilDate
       /\ (C23_Scanned /\ scannedPartitions' > scannedPartitions) => untilDate' < untilDate
       /\ untilDate' # untilDate => (pc = "call" \/ C23_Scanned)]_vars

\* the cursor has come down twice: once to the last row of a full batch, once
\* past a day that held fewer rows than the fetch limit
C23_Witness ==
    /\ unit = "scan"
    /\ pc = "done"
    /\ Len(scans) >= 2
    /\ scans[1].rows = scans[1].limit
    /\ scans[2].rows = 0
    /\ scans[2].until < scans[1].until
    /\ untilDate < scans[2].until

\* the rows the i-th range scan of the request returned
BatchOf(i) == RangeScan(kind, scans[i].scope, scans[i].until, sinceDate, scans[i].limit)

\* the partition the i-th range scan reads: the scoping id and, where the
\* statement binds one, the day
PartitionOf(i) ==
    <<scans[i].scope, IF DayPartitioned(kind) THEN DayOf(scans[i].until) ELSE 0>>

\* the scans whose batch had as many rows as the fetch limit
C24_Full == {i \in 1 .. Len(scans) : scans[i].rows = scans[i].limit}

\* what follows the i-th scan: the next scan or, after the last one, the locals
C24_After(i) ==
    IF i < Len(scans)
    THEN [until |-> scans[i + 1].until, scanned |-> scans[i + 1].scanned]
    ELSE [until |-> untilDate, scanned |-> scannedPartitions]

\* C24 as stated: after a batch of fetch-limit rows scannedPartitions is
\* unchanged and the next range scan reads the same partition with untilDate
\* at the creation time of the batch's last row
C24_SamePartition ==
    unit = "scan" =>
        \A i \in C24_Full :
            LET after == C24_After(i)
            IN /\ after.scanned = scans[i].scanned
               /\ after.until = Last(BatchOf(i)).createdAt
               /\ i < Len(scans) => PartitionOf(i + 1) = PartitionOf(i)

\* C24, amended: the same for every kind but the list kind, whose next scan
\* reads the partition of the next target id instead
C24_SamePartitionButList ==
    unit = "scan" =>
        \A i \in C24_Full :
            LET after == C24_After(i)
            IN /\ after.scanned = scans[i].scanned
               /\ after.until = Last(BatchOf(i)).createdAt
               /\ (i < Len(scans) /\ kind # "list") => PartitionOf(i + 1) = PartitionOf(i)
               /\ (i < Len(scans) /\ kind = "list") =>
                     scans[i + 1].scope = ps0.userIds[Len(ps0.userIds) - i]

\* a full batch of a day, then the rest of that day from the last row on
C24_Witness ==
    /\ unit = "scan"
    /\ kind = "home"
    /\ Len(scans) >= 2
    /\ 1 \in C24_Full
    /\ scans[2].rows = 1
    /\ scans[2].until = Last(BatchOf(1)).createdAt
    /\ DayOf(scans[2].until) = DayOf(scans[1].until)

\* the scans whose batch had fewer rows than the fetch limit
C25_Short == {i \in 1 .. Len(scans) : scans[i].rows # None /\ scans[i].rows < scans[i].limit}

\* the cursor once the i-th batch is taken in: at its last row, if it has one
C25_Cursor(i) ==
    IF scans[i].rows > 0 THEN Last(BatchOf(i)).createdAt ELSE scans[i].until

\* C25: after a batch of fewer rows than the fetch limit, an empty one too,
\* scannedPartitions is one more and untilDate is the last instant of the day
\* before the cursor's day; if a sinceDate was resolved and the new untilDate
\* lies before it, the loop has stopped and that scan is the last one
C25_ShortBatch ==
    unit = "scan" =>
        \A i \in C25_Short :
            LET after == C24_After(i)
                cursor == C25_Cursor(i)
            IN /\ after.scanned = scans[i].scanned + 1
               /\ DayOf(after.until) = DayOf(cursor) - 1
               /\ DayOf(after.until + 1) = DayOf(cursor)
               /\ (sinceDate # None /\ after.until < sinceDate) =>
                      (i = Len(scans) /\ pc = "done")

\* an empty batch moved the cursor below sinceDate and ended the request with
\* budget left and the target count not reached
C25_Witness ==
    /\ unit = "scan"
    /\ pc = "done"
    /\ sinceDate # None
    /\ Len(scans) \in C25_Short
    /\ Last(scans).rows = 0
    /\ untilDate < sinceDate
    /\ scannedPartitions < maxPartitions
    /\ Len(found) < foundLimit

\* the target ids the request was issued with
C26_Targets == {ps0.userIds[j] : j \in 1 .. Len(ps0.userIds)}

\* the i-th iteration took the i-th target id from the end of the list and
\* scanned for it
C26_OnePerIteration ==
    /\ Len(ps.userIds) = Len(ps0.userIds) - Len(scans)
    /\ \A i \in 1 .. Len(scans) : scans[i].scope = ps0.userIds[Len(ps0.userIds) - i + 1]

\* C26: for the list kind every iteration removes one target id and issues
\* one range scan, for that target; every supplied target gets its scan, and
\* the loop stops when no target id remains
C26_EveryTargetScanned ==
    (unit = "scan" /\ kind = "list" /\ pc \in {"loop", "done"}) =>
        /\ C26_OnePerIteration
        /\ pc = "done" =>
              /\ ps.userIds = <<>>
              /\ \A t \in C26_Targets : \E i \in 1 .. Len(scans) : scans[i].scope = t

\* C27: for the list kind every target's range scan has the request's
\* initially resolved untilDate as its upper bound: the scans of the targets
\* before it do not lower the bound, and the target gets the rows the window
\* holds for it
C27_InitialBoundPerTarget ==
    (unit = "scan" /\ kind = "list") =>
        \A i \in 1 .. Len(scans) :
            /\ scans[i].until = ResolveUntil(ps0, now)
            /\ scans[i].rows # None =>
                  BatchOf(i) = RangeScan(kind, scans[i].scope, ResolveUntil(ps0, now),
                                         sinceDate, scans[i].limit)

\* the rows some range scan of the request returned
C28_Scanned ==
    UNION {LET batch == BatchOf(i) IN {batch[j] : j \in 1 .. Len(batch)} :
              i \in {n \in 1 .. Len(scans) : scans[n].rows # None}}

\* C28: every row of the scanner's result was returned by a range scan and
\* kept by the filter, was created strictly before the resolved untilDate and,
\* if a sinceDate was resolved, strictly after it
C28_ResultInWindow ==
    (unit = "scan" /\ pc \in {"loop", "done"}) =>
        LET scanned == C28_Scanned
        IN \A j \in 1 .. Len(found) :
              /\ found[j] \in scanned
              /\ found[j].pass
              /\ found[j].createdAt < ResolveUntil(ps0, now)
              /\ ResolveSince(ps0) # None => found[j].createdAt > ResolveSince(ps0)

\* the result holds a row of the window; the store also holds a row at the
\* upper bound, one at the lower bound or one the filter drops
C28_Witness ==
    /\ unit = "scan"
    /\ pc = "done"
    /\ result = Returned(found)
    /\ Len(found) = 1
    /\ ResolveSince(ps0) # None
    /\ \E r \in store :
          /\ Scoped(kind) => r.key = found[1].key
          /\ \/ r.createdAt = ResolveUntil(ps0, now)
             \/ r.createdAt = ResolveSince(ps0)
             \/ ~r.pass

\* the rows of the i-th scan's partition created at the instant of the last
\* row of its batch and left out of the batch by the fetch limit
C29_LeftOut(i) ==
    LET batch == BatchOf(i)
    IN {r \in store : /\ Scoped(kind) => r.key = scans[i].scope
                      /\ r.createdAt = Last(batch).createdAt
                      /\ \A j \in 1 .. Len(batch) : batch[j] # r}

\* the rows the scans after the i-th returned
C29_ScannedAfter(i) ==
    UNION {LET batch == BatchOf(n) IN {batch[j] : j \in 1 .. Len(batch)} :
              n \in {m \in (i + 1) .. Len(scans) : scans[m].rows # None}}

\* C29: when rows of one creation time straddle the fetch limit, the cursor
\* moves to that creation time and, having no tie-break on the row id, the
\* scanner skips the rows of the group the batch left out: no range scan of
\* the request returns them, and none returns the last row of the batch again
C29_TieSkipped ==
    unit = "scan" =>
        \A i \in C24_Full :
            /\ C29_LeftOut(i) \cap C28_Scanned = {}
            /\ Last(BatchOf(i)) \notin C29_ScannedAfter(i)

\* a request that ended below its target count, having scanned on past a row
\* the filter keeps: its twin by creation time filled the batch
C29_Witness ==
    /\ unit = "scan"
    /\ pc = "done"
    /\ Len(found) < foundLimit
    /\ Len(scans) >= 2
    /\ 1 \in C24_Full
    /\ \E r \in C29_LeftOut(1) : r.pass /\ \A j \in 1 .. Len(found) : found[j] # r

\* C30: execPaginationQuery leaves the caller's descriptor as it was passed:
\* the limit, the since and until bounds, the note id, the channel id and the
\* list of target ids, so that a second call with the same object starts from
\* the same state
C30_DescriptorUnchanged == (unit = "scan" /\ pc # "call") => ps = ps0

\* both calls have returned and both had found the key absent
C31_BothMissed ==
    /\ unit = "race"
    /\ \A c \in Callers : fc[c].pc = "done" /\ fc[c].cached = Undefined

\* the entry a caller's set writes: its fetcher's value, encoded, with the
\* expiry of the moment of the write
C31_EntryOf(c) == [value |-> encode(fc[c].gave), expires |-> fc[c].at + ttl]

\* C31: two calls of fetch that both miss the same key each run their own
\* fetcher once and each return what their own fetcher gave; once both have
\* returned the entry is whole and is the entry one of the two wrote, never a
\* mixture of the two writes, and it is there when the second call returns
C31_RaceOnMiss ==
    C31_BothMissed =>
        LET key == prefixedKey(fc[1].key)
        IN /\ \A c \in Callers : fc[c].produced = 1 /\ fc[c].result = Resolved(fc[c].gave)
           /\ key \in DOMAIN redis => \E c \in Callers : redis[key] = C31_EntryOf(c)
           /\ (\E c \in Callers : fc[c].at = now) => key \in DOMAIN redis

\* both fetchers ran and gave different values; the entry holds the value of
\* the second caller, written a second after the first caller's
C31_Witness ==
    /\ C31_BothMissed
    /\ fc[1].gave = "v1"
    /\ fc[2].gave = "v2"
    /\ fc[1].at < fc[2].at
    /\ prefixedKey(fc[1].key) \in DOMAIN redis
    /\ redis[prefixedKey(fc[1].key)] = C31_EntryOf(2)

\* caller c's fetch has returned and nothing else wrote while it ran
C32_Undisturbed(c) == unit = "sync" /\ fc[c].role = "sync" /\ fc[c].pc = "done" /\ fc[c].quiet

\* the fetch reloaded: one call of the producer, the members are the source's
\* list, the marker is set
C32_Reloaded(c) ==
    /\ fc[c].produced = 1
    /\ fc[c].after.set = fc[c].before.source
    /\ fc[c].after.mark # None

\* the fetch called no producer and left members, marker and expiry alone
C32_NoOp(c) ==
    /\ fc[c].produced = 0
    /\ fc[c].after.set = fc[c].before.set
    /\ fc[c].after.mark = fc[c].before.mark

\* C32 as stated: sync reloads only when the member set is empty and the
\* marker is absent, and is a no-op in every other state
C32_ReloadIfEmptyAndStale ==
    \A c \in Callers :
        C32_Undisturbed(c) =>
            IF fc[c].before.set = {} /\ fc[c].before.mark = None
            THEN C32_Reloaded(c) ELSE C32_NoOp(c)

\* C32, amended: sync reloads when the member set is empty or the marker is
\* absent, and is a no-op only with members and a marker
C32_ReloadIfEmptyOrStale ==
    \A c \in Callers :
        C32_Undisturbed(c) =>
            IF fc[c].before.set = {} \/ fc[c].before.mark = None
            THEN C32_Reloaded(c) ELSE C32_NoOp(c)

\* a reload of an empty set whose marker was there: the marker is set anew
C32_Witness ==
    \E c \in Callers :
        /\ C32_Undisturbed(c)
        /\ fc[c].before.set = {}
        /\ fc[c].before.mark = 1
        /\ fc[c].before.source = {"a"}
        /\ C32_Reloaded(c)
        /\ fc[c].after.mark = MarkerTtl

\* caller c's fetch found members and a marker
C33_Warm(c) == fc[c].before.set # {} /\ fc[c].before.mark # None

\* C33: a sync of a warm set (members, marker present) is a no-op: the
\* producer is not called, the members, the marker and its expiry are as they
\* were; so of two syncs that follow one another on a set with members, the
\* second calls the producer only if the marker has run out in between
C33_WarmNoOp ==
    /\ \A c \in Callers : (C32_Undisturbed(c) /\ C33_Warm(c)) => C32_NoOp(c)
    /\ \A c, d \in Callers :
          (/\ c # d
           /\ C32_Undisturbed(c) /\ fc[c].produced = 1
           /\ C32_Undisturbed(d) /\ fc[d].produced = 1
           /\ fc[d].before.set # {}) => fc[d].before.mark = None

\* the first caller loaded the set, the second found it warm a second later
\* and left it alone
C33_Witness ==
    /\ C32_Undisturbed(1) /\ C32_Reloaded(1)
    /\ C32_Undisturbed(2) /\ C33_Warm(2) /\ C32_NoOp(2)
    /\ fc[1].before.set = {}
    /\ fc[2].before.set = fc[1].after.set
    /\ fc[2].before.mark = fc[1].after.mark
    /\ now = 1

\* caller c's fetch found members whose marker had expired
C34_Expired(c) == fc[c].before.set # {} /\ fc[c].before.mark = None

\* C34: a sync that finds the marker expired reloads although the set has
\* members; run without a concurrent edit it leaves exactly the source's list
\* in the set (a member the source no longer lists is gone) and a marker
C34_ReloadAfterExpiry ==
    \A c \in Callers : (C32_Undisturbed(c) /\ C34_Expired(c)) =>
        /\ C32_Reloaded(c)
        /\ fc[c].after.set \ fc[c].before.source = {}

\* caller 1 found the set warm and left it; the marker ran out; caller 2 then
\* reloaded the same members, one of which the source does not list
C34_Witness ==
    /\ C32_Undisturbed(1) /\ C33_Warm(1) /\ C32_NoOp(1)
    /\ C32_Undisturbed(2) /\ C34_Expired(2) /\ C32_Reloaded(2)
    /\ fc[2].before.set = fc[1].after.set
    /\ fc[2].before.set \ fc[2].before.source # {}
    /\ fc[2].before.source # {}
    /\ getAll(rsets, SyncKey) = source[SyncCache]

\* C35: the owner's source list has members; a caller whose own sync has
\* completed never reads an empty set (getAll empty, hasFollowing false, and
\* with them isFollowing false for every member), whatever other callers'
\* syncs do
C35_NeverEmptyRead ==
    \A c \in Callers :
        (/\ unit = "sync"
         /\ fc[c].read.done
         /\ source[SyncCache] # {}) =>
            /\ fc[c].read.all # {}
            /\ fc[c].read.has

\* the sync and the mutation have both completed
C36_BothDone ==
    /\ unit = "sync"
    /\ \A c \in Callers : fc[c].pc = "done"
    /\ \E c \in Callers : fc[c].role = "mutate"

\* C36: a mutation (the source's list updated, then the matching follow or
\* unfollow on the cache) runs next to a sync of the same owner; when both
\* have completed the cached members are the source's list, and an unfollowed
\* id is not among them
C36_CacheEqualsSource ==
    C36_BothDone =>
        /\ getAll(rsets, SyncKey) = source[SyncCache]
        /\ \A c \in Callers :
              (fc[c].role = "mutate" /\ fc[c].op = "unfollow") =>
                  fc[c].target \cap getAll(rsets, SyncKey) = {}

\* C37: the eight lookups of the home-timeline request are started together;
\* a range scan is issued, and the filter chain run on its batch, only when
\* every one of them has completed; when one has failed no scan is issued
C37_FanIn ==
    unit = "fanin" =>
        /\ (\E l \in Lookups : fc[l] # "idle") => (\A l \in Lookups : fc[l] # "idle")
        /\ (tpc = "loop" \/ chain.scanned > 0) => (\A l \in Lookups : fc[l] = "resolved")
        /\ (\E l \in Lookups : fc[l] = "rejected") => (chain.scanned = 0 /\ chain.pc = "idle")
        /\ tpc = "threw" => (chain.scanned = 0 /\ response = Thrown)

\* the request has scanned, all eight lookups having given their value
C37_Witness ==
    /\ unit = "fanin"
    /\ tpc = "done"
    /\ chain.scanned = MaxHomeScans
    /\ \A l \in Lookups : fc[l] = "resolved"

\* a lookup has failed while others were still pending, the request has thrown
C37_Failed ==
    /\ unit = "fanin"
    /\ tpc = "threw"
    /\ \E l, m \in Lookups : fc[l] = "rejected" /\ fc[m] = "pending"

\* the rows of a batch the word-mute check is false for, in their order
C38_NotMuted(notes, words) ==
    SelectSeq(notes, LAMBDA n : checkWordMute(n, words) = Resolved(FALSE))

\* C38: filterMutedNote returns exactly the rows the word-mute check is false
\* for, in their order: with muted words a row that matches no pattern is
\* kept and a matching row is dropped, with no muted word every row is kept
C38_WordMuteStep ==
    (unit = "mutednote" /\ chain.pc = "done") =>
        /\ chain.out = Resolved(Ok(C38_NotMuted(chain.notes, chain.ctx.mutedWords)))
        /\ chain.ctx.mutedWords = <<>> => chain.out = Resolved(Ok(chain.notes))

\* attempt a presented a security-key assertion that the handler verified
\* against the stored login challenge while the challenge was younger than
\* five minutes
C39_KeyVerified(a) ==
    /\ fc[a].cred /\ fc[a].keyKnown /\ fc[a].sigValid
    /\ fc[a].challengeId = "c1" /\ fc[a].clientData = "k1"
    /\ fc[a].deleted
    /\ fc[a].checkedAt # None
    /\ fc[a].checkedAt - fc[a].row < ChallengeMaxAge

\* the three ways to a session
C39_Entitled(a) ==
    /\ source.exists /\ ~source.isSuspended
    /\ \/ ~source.twoFactorEnabled /\ fc[a].same
       \/ source.twoFactorEnabled /\ fc[a].token = "good" /\ fc[a].same
       \/ /\ source.twoFactorEnabled /\ fc[a].token = ""
          /\ C39_KeyVerified(a)
          /\ (fc[a].same \/ source.usePasswordLessLogin)

\* the rows of Signins attempt a has appended
C39_Records(a) == {i \in 1 .. Len(found) : found[i].attempt = a /\ ~found[i].success}

\* C39: the handler gives a session only to an existing user who is not
\* suspended, and only (a) without two-factor on a matching password, (b) with
\* two-factor on a matching password and a token that verifies, (c) with
\* two-factor on a security-key assertion that verifies against the stored
\* challenge in time, the password matching or passwordless login being on;
\* every attempt on a found user that ends for its credentials without a
\* session has appended a failed sign-in
C39_SessionOnlyIfEntitled ==
    unit = "signin" => \A a \in Callers :
        /\ fc[a].result = "session" => (C39_Entitled(a) /\ C39_Records(a) = {})
        /\ (fc[a].pc = "done" /\ ~C39_Entitled(a)) => fc[a].result # "session"
        /\ (/\ fc[a].pc = "done"
            /\ source.exists /\ ~source.isSuspended
            /\ fc[a].result \notin {"session", "challenge", "threw"}) =>
               (fc[a].result = "ACCESS_DENIED" /\ Cardinality(C39_Records(a)) = 1)
        /\ (/\ fc[a].pc = "done"
            /\ source.exists /\ ~source.isSuspended
            /\ ~fc[a].same
            /\ ~(source.twoFactorEnabled /\ fc[a].token = "" /\ source.usePasswordLessLogin)) =>
               (fc[a].result = "ACCESS_DENIED" /\ Cardinality(C39_Records(a)) = 1)
        /\ (fc[a].pc = "done" /\ (~source.exists \/ source.isSuspended)) =>
               (fc[a].result \in {"NO_SUCH_USER", "SUSPENDED"} /\ C39_Records(a) = {})

\* a session by security key without the password, passwordless login on, the
\* challenge checked a minute before its end
C39_Witness ==
    /\ unit = "signin"
    /\ fc[1].result = "session"
    /\ ~fc[1].same /\ source.usePasswordLessLogin
    /\ C39_KeyVerified(1)
    /\ fc[1].checkedAt - fc[1].row = ChallengeMaxAge - 1
    /\ FindChallenge(store, "u", "c1", "k1") = {}

\* the attempts that presented the login challenge and got a session
C40_Sessions == {a \in Callers : fc[a].cred /\ fc[a].result = "session"}

\* a challenge is deleted before its age and signature are checked, and one
\* that is five minutes old gives no session
C40_DeletedThenChecked ==
    unit = "signin" => \A a \in Callers :
        /\ (fc[a].pc = "verify" \/ fc[a].checkedAt # None) =>
               (fc[a].deleted /\ FindChallenge(store, "u", fc[a].challengeId,
                                               fc[a].clientData) = {})
        /\ (fc[a].cred /\ fc[a].result = "session") =>
               fc[a].checkedAt - fc[a].row < ChallengeMaxAge

\* C40: a security-key challenge is single-use and short-lived: it is deleted
\* before its age and signature are checked, at five minutes of age it gives
\* no session, and of the attempts that present one challenge id at most one
\* gets a session, however they interleave
C40_SingleUse ==
    /\ C40_DeletedThenChecked
    /\ unit = "signin" => Cardinality(C40_Sessions) <= 1

====
